---- MODULE Spec2Model ----
(***************************************************************************)
(* DIGGGIN: the CSV -> record -> filter pipeline of the repository's       *)
(* entry points.                                                           *)
(*                                                                         *)
(* A JavaScript string is modelled as a sequence of one-character strings, *)
(* so that trimming, case folding, splitting and substring search are      *)
(* computed the way the code computes them.                                *)
(***************************************************************************)
EXTENDS Integers, Sequences, FiniteSets, TLC

\* ------------------------------------------------------------------------
\* String primitives (String.prototype.*)
\* ------------------------------------------------------------------------

UpperChars == <<"A","B","C","D","E","F","G","H","I","J","K","L","M",
                "N","O","P","Q","R","S","T","U","V","W","X","Y","Z">>

LowerChars == <<"a","b","c","d","e","f","g","h","i","j","k","l","m",
                "n","o","p","q","r","s","t","u","v","w","x","y","z">>

DigitChars == <<"0","1","2","3","4","5","6","7","8","9">>

IsUpper(c) == \E i \in DOMAIN UpperChars : UpperChars[i] = c

IsLowerCh(c) == \E i \in DOMAIN LowerChars : LowerChars[i] = c

IsDigit(c) == \E i \in DOMAIN DigitChars : DigitChars[i] = c

\* \s of a regular expression, and the characters String.trim removes
IsSpace(c) == c \in {" ", "\n", "\t", "\r"}

\* \w of a regular expression
IsWordChar(c) == IsUpper(c) \/ IsLowerCh(c) \/ IsDigit(c) \/ c = "_"

toLowerChar(c) ==
    IF IsUpper(c)
    THEN LowerChars[CHOOSE i \in DOMAIN UpperChars : UpperChars[i] = c]
    ELSE c

\* String.prototype.toLowerCase
toLowerCase(s) == [i \in 1..Len(s) |-> toLowerChar(s[i])]

\* s.slice(a, b) with 1-based inclusive positions a..b
Slice(s, a, b) == IF a > b THEN <<>> ELSE SubSeq(s, a, b)

\* String.prototype.trim
trim(s) ==
    LET keep == {i \in 1..Len(s) : ~IsSpace(s[i])}
    IN  IF keep = {} THEN <<>>
        ELSE LET lo == CHOOSE i \in keep : \A j \in keep : i <= j
                 hi == CHOOSE i \in keep : \A j \in keep : j <= i
             IN  SubSeq(s, lo, hi)

\* String.prototype.includes
includes(s, t) ==
    \E i \in 1..(Len(s) - Len(t) + 1) : SubSeq(s, i, i + Len(t) - 1) = t

\* Array.prototype.includes
arrayIncludes(arr, x) == \E i \in 1..Len(arr) : arr[i] = x

\* String.prototype.split(sep) for a one-character separator: the pieces
\* between consecutive separators
split(s, sep) ==
    LET seps   == {i \in 1..Len(s) : s[i] = sep}
        nth(k) == IF k = 0 THEN 0
                  ELSE IF k > Cardinality(seps) THEN Len(s) + 1
                  ELSE CHOOSE p \in seps : Cardinality({q \in seps : q < p}) = k - 1
    IN  [k \in 1..(Cardinality(seps) + 1) |-> Slice(s, nth(k - 1) + 1, nth(k) - 1)]

\* Array.prototype.join(sep)
RECURSIVE join(_, _)
join(arr, sep) ==
    IF Len(arr) = 0 THEN <<>>
    ELSE IF Len(arr) = 1 THEN arr[1]
    ELSE arr[1] \o sep \o join(Tail(arr), sep)

\* Array.prototype.filter, for a set of kept positions
RECURSIVE keepIdx(_, _, _)
keepIdx(arr, keep, i) ==
    IF i > Len(arr) THEN <<>>
    ELSE (IF i \in keep THEN <<arr[i]>> ELSE <<>>) \o keepIdx(arr, keep, i + 1)

\* [...new Set(arr)]: first occurrences, in order
uniq(arr) ==
    keepIdx(arr, {i \in 1..Len(arr) : \A j \in 1..(i - 1) : arr[j] # arr[i]}, 1)

\* arr.filter(x => x.length > 0)
nonEmpty(arr) == keepIdx(arr, {i \in 1..Len(arr) : Len(arr[i]) > 0}, 1)

mapTrim(arr) == [i \in 1..Len(arr) |-> trim(arr[i])]

mapLower(arr) == [i \in 1..Len(arr) |-> toLowerCase(arr[i])]

Range(f) == {f[i] : i \in DOMAIN f}

\* ------------------------------------------------------------------------
\* Column names, header texts and placeholder strings of the sources
\* ------------------------------------------------------------------------

K_cover == <<"c","o","v","e","r">>

K_artist == <<"a","r","t","i","s","t">>

K_mood == <<"m","o","o","d">>

K_year == <<"y","e","a","r">>

K_collections == <<"c","o","l","l","e","c","t","i","o","n","s">>

K_artwork_name == <<"a","r","t","w","o","r","k","_","n","a","m","e">>

K_song_genre == <<"s","o","n","g","_","g","e","n","r","e">>

K_song_title == <<"s","o","n","g","_","t","i","t","l","e">>

K_artistic_category == <<"a","r","t","i","s","t","i","c","_","c","a","t","e","g","o","r","y">>

K_artworkName == <<"a","r","t","w","o","r","k","N","a","m","e">>

K_songGenre == <<"s","o","n","g","G","e","n","r","e">>

K_songTitle == <<"s","o","n","g","T","i","t","l","e">>

K_artisticCategory == <<"a","r","t","i","s","t","i","c","C","a","t","e","g","o","r","y">>

K_hasSleeve == <<"h","a","s","S","l","e","e","v","e">>

H_artwork_name == <<"a","r","t","w","o","r","k"," ","n","a","m","e">>

H_song_genre == <<"s","o","n","g"," ","g","e","n","r","e">>

H_song_title == <<"s","o","n","g"," ","t","i","t","l","e">>

H_artistic_category == <<"a","r","t","i","s","t","i","c"," ","c","a","t","e","g","o","r","y">>

S_Untitled == <<"U","n","t","i","t","l","e","d">>

S_Unknown == <<"U","n","k","n","o","w","n">>

S_abstract == <<"a","b","s","t","r","a","c","t">>

S_neutral == <<"n","e","u","t","r","a","l">>

S_true == <<"t","r","u","e">>

\* ------------------------------------------------------------------------
\* threejs-app/js/data.js: DataProcessor
\* ------------------------------------------------------------------------

\* JS array read arr[k] || '' (k is the 0-based JS index)
At(arr, k) == IF k + 1 <= Len(arr) THEN arr[k + 1] ELSE <<>>

\* one pass of the loop of lines 50-63, at the 1-based position i
parseCSVRowStep(st, row, i) ==
    LET char == row[i] IN
    IF char = "\"" /\ (i = 1 \/ row[i - 1] = ",")
    THEN [st EXCEPT !.inQuotes = TRUE, !.i = i + 1]
    ELSE IF char = "\"" /\ st.inQuotes /\ (i = Len(row) \/ row[i + 1] = ",")
    THEN [st EXCEPT !.inQuotes = FALSE, !.i = i + 1]
    ELSE IF char = "," /\ ~st.inQuotes
    THEN [st EXCEPT !.result = Append(@, trim(st.current)), !.current = <<>>, !.i = i + 1]
    ELSE [st EXCEPT !.current = Append(@, char), !.i = i + 1]

\* the passes for positions lo..hi, in order, until the loop variable
\* leaves the row
RECURSIVE parseCSVRowRun(_, _, _, _)
parseCSVRowRun(st, row, lo, hi) ==
    IF lo > hi THEN st
    ELSE IF lo = hi THEN parseCSVRowStep(st, row, lo)
    ELSE LET mid  == (lo + hi) \div 2
             left == parseCSVRowRun(st, row, lo, mid)
         IN  IF left.i > hi THEN left ELSE parseCSVRowRun(left, row, mid + 1, hi)

parseCSVRow(row) ==
    LET st == parseCSVRowRun([result |-> <<>>, current |-> <<>>, inQuotes |-> FALSE, i |-> 1],
                             row, 1, Len(row))
    IN  Append(st.result, trim(st.current))

DataProcessor_parseColors(colorText) ==
    IF colorText = <<>> THEN <<>>
    ELSE nonEmpty(mapTrim(split(toLowerCase(colorText), ",")))

DataProcessor_parseCollections(collectionText) ==
    IF collectionText = <<>> THEN <<>>
    ELSE nonEmpty(mapTrim(split(toLowerCase(collectionText), ",")))

searchTermsOf(artworkName, genre, artist, songTitle, artisticCategory, mood, colors, collections) ==
    toLowerCase(join(<<artworkName, genre, artist, songTitle, artisticCategory, mood>>
                     \o colors \o collections, <<" ">>))

createRecord(headers, row, index) ==
    LET colors      == DataProcessor_parseColors(At(row, 7))
        collections == DataProcessor_parseCollections(At(row, 8))
    IN  [ id               |-> index,
          cover            |-> At(row, 0),
          artworkName      |-> At(row, 1),
          genre            |-> At(row, 2),
          artist           |-> At(row, 3),
          songTitle        |-> At(row, 4),
          artisticCategory |-> At(row, 5),
          mood             |-> At(row, 6),
          colors           |-> colors,
          collections      |-> collections,
          searchTerms      |-> searchTermsOf(At(row, 1), At(row, 2), At(row, 3), At(row, 4),
                                             At(row, 5), At(row, 6), colors, collections),
          textureLoaded    |-> FALSE,
          visible          |-> TRUE ]

\* the guard of line 27: which parsed rows become records
rowAccepted(row, headers) == Len(row) >= Len(headers)

\* extractMetadata: the distinct-value sets after adding one record
extractMetadata(dp, record) ==
    [ dp EXCEPT
        !.genres      = IF record.genre # <<>> THEN @ \cup {record.genre} ELSE @,
        !.artists     = IF record.artist # <<>> THEN @ \cup {record.artist} ELSE @,
        !.moods       = IF record.mood # <<>> THEN @ \cup {record.mood} ELSE @,
        !.collections = @ \cup Range(record.collections) ]

\* the loop of parseCSV from data line i (0-based JS index) on
RECURSIVE parseCSVLoop(_, _, _, _)
parseCSVLoop(dp, lines, headers, i) ==
    IF i >= Len(lines) THEN dp
    ELSE LET row    == parseCSVRow(lines[i + 1])
             record == createRecord(headers, row, i)
             after  == IF rowAccepted(row, headers)
                       THEN extractMetadata([dp EXCEPT !.records = Append(@, record)], record)
                       ELSE dp
         IN  \* the test, true of every pass, evaluates the processor before the next
             IF Len(after.records) >= 0 THEN parseCSVLoop(after, lines, headers, i + 1)
             ELSE after

\* DataProcessor.parseCSV: the processor after the call (its return value is
\* the processor's records array)
DataProcessor_parseCSV(dp, csvData) ==
    LET lines   == split(trim(csvData), "\n")
        headers == parseCSVRow(lines[1])
    IN  parseCSVLoop(dp, lines, headers, 1)

\* new DataProcessor()
NewDataProcessor ==
    [ records |-> <<>>, genres |-> {}, artists |-> {}, moods |-> {}, collections |-> {} ]

\* ------------------------------------------------------------------------
\* scripts/csvParser.js: CSVParser
\* ------------------------------------------------------------------------

\* one pass of the loop of lines 58-82, at the 1-based position pos; st.i is
\* the loop variable, which an escaped quote moves on by two
parseCSVLineStep(st, line, pos) ==
    IF pos < st.i THEN st
    ELSE LET char == line[pos] IN
         IF char = "\""
         THEN IF st.inQuotes /\ pos + 1 <= Len(line) /\ line[pos + 1] = "\""
              THEN [st EXCEPT !.current = Append(@, "\""), !.i = pos + 2]
              ELSE [st EXCEPT !.inQuotes = ~st.inQuotes, !.i = pos + 1]
         ELSE IF char = "," /\ ~st.inQuotes
         THEN [st EXCEPT !.result = Append(@, st.current), !.current = <<>>, !.i = pos + 1]
         ELSE [st EXCEPT !.current = Append(@, char), !.i = pos + 1]

RECURSIVE parseCSVLineRun(_, _, _, _)
parseCSVLineRun(st, line, lo, hi) ==
    IF lo > hi THEN st
    ELSE IF lo = hi THEN parseCSVLineStep(st, line, lo)
    ELSE LET mid  == (lo + hi) \div 2
             left == parseCSVLineRun(st, line, lo, mid)
         IN  IF left.i > hi THEN left ELSE parseCSVLineRun(left, line, mid + 1, hi)

parseCSVLine(line) ==
    LET st == parseCSVLineRun([result |-> <<>>, current |-> <<>>, inQuotes |-> FALSE, i |-> 1],
                              line, 1, Len(line))
    IN  Append(st.result, st.current)

\* value of one parsed field after parseInt(value, 10): NaN, or a number
RECURSIVE digitsValue(_, _, _)
digitsValue(s, i, acc) ==
    IF i > Len(s) \/ ~IsDigit(s[i]) THEN acc
    ELSE digitsValue(s, i + 1,
                     acc * 10 + (CHOOSE d \in DOMAIN DigitChars : DigitChars[d] = s[i]) - 1)

parseInt(value) ==
    LET t == trim(value) IN
    IF Len(t) > 0 /\ IsDigit(t[1])
    THEN [nan |-> FALSE, n |-> digitsValue(t, 1, 0)]
    ELSE [nan |-> TRUE, n |-> 0]

\* the record object built by lines 32-44 from one line's values
csvObject(headers, values) ==
    [ h \in Range(headers) |->
        LET index == CHOOSE j \in DOMAIN headers :
                        headers[j] = h /\ \A k \in DOMAIN headers : headers[k] = h => k <= j
            value == values[index]
        IN  IF h = K_hasSleeve THEN [str |-> <<>>, bool |-> toLowerCase(value) = S_true, num |-> parseInt(<<>>)]
            ELSE IF h = K_year THEN [str |-> <<>>, bool |-> FALSE, num |-> parseInt(value)]
            ELSE [str |-> value, bool |-> FALSE, num |-> parseInt(<<>>)] ]

\* the guard of line 31: which lines become records
lineAccepted(values, headers) == Len(values) = Len(headers)

RECURSIVE CSVParser_loop(_, _, _)
CSVParser_loop(lines, headers, i) ==
    IF i >= Len(lines) THEN <<>>
    ELSE LET values == parseCSVLine(lines[i + 1]) IN
         (IF lineAccepted(values, headers) THEN <<csvObject(headers, values)>> ELSE <<>>)
         \o CSVParser_loop(lines, headers, i + 1)

\* the guard of line 22 letting every text pass
tooFewLines_never(lines) == FALSE

\* the guard of line 22
tooFewLines(lines) == Len(lines) < 2

\* CSVParser.parseCSV: the thrown error, or the records
CSVParser_parseCSV(text) ==
    LET lines == split(trim(text), "\n") IN
    IF tooFewLines(lines)
    THEN [threw |-> TRUE, error |-> "CSV must have at least a header and one data row",
          records |-> <<>>]
    ELSE [threw |-> FALSE, error |-> "",
          records |-> CSVParser_loop(lines, parseCSVLine(lines[1]), 1)]

\* CSVParser.loadCSV on a fetch outcome
CSVParser_loadCSV(status, body) ==
    IF status = "neterr"
    THEN [threw |-> TRUE, error |-> "fetch rejected", records |-> <<>>]
    ELSE IF status # "ok"
    THEN [threw |-> TRUE, error |-> "Failed to load CSV", records |-> <<>>]
    ELSE CSVParser_parseCSV(body)

\* ------------------------------------------------------------------------
\* Papa.parse(text, {header: true, skipEmptyLines: true, ...}) as the two
\* loaders call it.  The inputs of this model close every quoted field on
\* its own line, so a row is a line.
\* ------------------------------------------------------------------------

\* one character of Papa's field scanner, at the 1-based position pos
papaStep(st, line, pos) ==
    IF pos < st.i THEN st
    ELSE LET char == line[pos] IN
         IF st.inQuotes
         THEN IF char = "\"" /\ pos + 1 <= Len(line) /\ line[pos + 1] = "\""
              THEN [st EXCEPT !.current = Append(@, "\""), !.i = pos + 2]
              ELSE IF char = "\"" /\ (pos = Len(line) \/ line[pos + 1] = ",")
              THEN [st EXCEPT !.inQuotes = FALSE, !.i = pos + 1]
              ELSE [st EXCEPT !.current = Append(@, char), !.i = pos + 1]
         ELSE IF char = "\"" /\ st.current = <<>> /\ (pos = 1 \/ line[pos - 1] = ",")
         THEN [st EXCEPT !.inQuotes = TRUE, !.i = pos + 1]
         ELSE IF char = ","
         THEN [st EXCEPT !.result = Append(@, st.current), !.current = <<>>, !.i = pos + 1]
         ELSE [st EXCEPT !.current = Append(@, char), !.i = pos + 1]

RECURSIVE papaRun(_, _, _, _)
papaRun(st, line, lo, hi) ==
    IF lo > hi THEN st
    ELSE IF lo = hi THEN papaStep(st, line, lo)
    ELSE LET mid  == (lo + hi) \div 2
             left == papaRun(st, line, lo, mid)
         IN  IF left.i > hi THEN left ELSE papaRun(left, line, mid + 1, hi)

papaFields(line) ==
    LET st == papaRun([result |-> <<>>, current |-> <<>>, inQuotes |-> FALSE, i |-> 1],
                      line, 1, Len(line))
    IN  Append(st.result, st.current)

\* the rows of the text, empty lines skipped
papaRows(text) ==
    LET lines == split(text, "\n")
        rows  == [i \in 1..Len(lines) |-> papaFields(lines[i])]
    IN  keepIdx(rows, {i \in 1..Len(lines) : lines[i] # <<>>}, 1)

\* one row object: the header's fields that the row has a value for
papaObject(fields, row) ==
    LET n == IF Len(fields) < Len(row) THEN Len(fields) ELSE Len(row) IN
    [ k \in {fields[j] : j \in 1..n} |->
        row[CHOOSE j \in 1..n : fields[j] = k /\ \A m \in 1..n : fields[m] = k => m <= j] ]

\* results.data, from the field names (the first row after transformHeader)
\* and the rows (after transform)
papaParse(fields, rows) ==
    [i \in 1..(Len(rows) - 1) |-> papaObject(fields, rows[i + 1])]

\* the value undefined: no text is a single element of more than one character
Undefined == <<"undefined">>

\* !value, for a text or undefined
Falsy(value) == value = <<>> \/ value = Undefined

\* row.key
Get(row, key) == IF key \in DOMAIN row THEN row[key] ELSE Undefined

\* ------------------------------------------------------------------------
\* src/data/dataLoader.js: DataLoader
\* ------------------------------------------------------------------------

\* header.trim().toLowerCase().replace(/\s+/g, '_')
RECURSIVE collapseSpaces(_, _)
collapseSpaces(s, i) ==
    IF i > Len(s) THEN <<>>
    ELSE IF IsSpace(s[i])
    THEN (IF i > 1 /\ IsSpace(s[i - 1]) THEN <<>> ELSE <<"_">>) \o collapseSpaces(s, i + 1)
    ELSE <<s[i]>> \o collapseSpaces(s, i + 1)

DataLoader_transformHeader(header) == collapseSpaces(toLowerCase(trim(header)), 1)

DataLoader_transform(value) == trim(value)

DataLoader_parseCollections(collections) ==
    IF Falsy(collections) THEN <<>>
    ELSE mapLower(mapTrim(split(collections, ",")))

ColorVocabulary ==
    { <<"r","e","d">>,
      <<"g","r","e","e","n">>,
      <<"b","l","u","e">>,
      <<"y","e","l","l","o","w">>,
      <<"o","r","a","n","g","e">>,
      <<"p","u","r","p","l","e">>,
      <<"p","i","n","k">>,
      <<"b","l","a","c","k">>,
      <<"w","h","i","t","e">>,
      <<"b","r","o","w","n">>,
      <<"g","o","l","d">>,
      <<"v","i","b","r","a","n","t">>,
      <<"d","a","r","k">>,
      <<"c","o","o","l">>,
      <<"w","a","r","m">> }

\* the maximal runs of word characters of a text, in order
RECURSIVE wordRuns(_, _, _)
wordRuns(s, i, cur) ==
    IF i > Len(s) THEN (IF cur = <<>> THEN <<>> ELSE <<cur>>)
    ELSE IF IsWordChar(s[i]) THEN wordRuns(s, i + 1, Append(cur, s[i]))
    ELSE (IF cur = <<>> THEN <<>> ELSE <<cur>>) \o wordRuns(s, i + 1, <<>>)

\* colorInfo.match(/\b(red|...|warm)\b/gi)
colorMatches(colorInfo) ==
    LET runs == wordRuns(colorInfo, 1, <<>>)
    IN  keepIdx(runs, {i \in 1..Len(runs) : toLowerCase(runs[i]) \in ColorVocabulary}, 1)

\* parseColors returning every match, repeated ones included
DataLoader_parseColors_everyMatch(colorInfo) ==
    IF Falsy(colorInfo) THEN <<>>
    ELSE mapLower(colorMatches(colorInfo))

DataLoader_parseColors(colorInfo) ==
    IF Falsy(colorInfo) THEN <<>>
    ELSE uniq(mapLower(colorMatches(colorInfo)))

DataLoader_parseTags(collections) ==
    IF Falsy(collections) THEN <<>>
    ELSE uniq(mapLower(mapTrim(split(collections, ","))))

\* a || b
OrElse(a, b) == IF Falsy(a) THEN b ELSE a

\* the filter of line 63
rowComplete(row) ==
    ~Falsy(Get(row, K_cover)) /\ ~Falsy(Get(row, K_artist)) /\ ~Falsy(Get(row, K_song_title))

\* processData's map callback without the placeholders of genre and mood
processRow_rawFields(row, index) ==
    [ id               |-> index,
      cover            |-> Get(row, K_cover),
      artworkName      |-> OrElse(Get(row, K_artwork_name), S_Untitled),
      songGenre        |-> Get(row, K_song_genre),
      artist           |-> Get(row, K_artist),
      songTitle        |-> Get(row, K_song_title),
      artisticCategory |-> OrElse(Get(row, K_artistic_category), S_abstract),
      mood             |-> Get(row, K_mood),
      year             |-> OrElse(Get(row, K_year), S_Unknown),
      collections      |-> DataLoader_parseCollections(Get(row, K_collections)),
      colors           |-> DataLoader_parseColors(Get(row, K_year)),
      tags             |-> DataLoader_parseTags(Get(row, K_collections)) ]

processRow(row, index) ==
    [ id               |-> index,
      cover            |-> Get(row, K_cover),
      artworkName      |-> OrElse(Get(row, K_artwork_name), S_Untitled),
      songGenre        |-> OrElse(Get(row, K_song_genre), S_Unknown),
      artist           |-> Get(row, K_artist),
      songTitle        |-> Get(row, K_song_title),
      artisticCategory |-> OrElse(Get(row, K_artistic_category), S_abstract),
      mood             |-> OrElse(Get(row, K_mood), S_neutral),
      year             |-> OrElse(Get(row, K_year), S_Unknown),
      collections      |-> DataLoader_parseCollections(Get(row, K_collections)),
      colors           |-> DataLoader_parseColors(Get(row, K_year)),
      tags             |-> DataLoader_parseTags(Get(row, K_collections)) ]

processData(rawData) ==
    LET kept == keepIdx(rawData, {i \in 1..Len(rawData) : rowComplete(rawData[i])}, 1)
    IN  [i \in 1..Len(kept) |-> processRow(kept[i], i - 1)]

\* DataLoader.loadData on a fetch outcome: the loader afterwards and whether
\* the returned promise rejected
DataLoader_loadData(dl, status, body) ==
    IF status = "neterr"
    THEN [loader |-> dl, threw |-> TRUE, error |-> "Failed to load data"]
    ELSE LET raw    == papaRows(body)
             fields == IF raw = <<>> THEN <<>>
                       ELSE [j \in 1..Len(raw[1]) |-> DataLoader_transformHeader(raw[1][j])]
             rows   == [i \in 1..Len(raw) |->
                          [j \in 1..Len(raw[i]) |-> DataLoader_transform(raw[i][j])]]
         IN  [loader |-> [data |-> processData(papaParse(fields, rows)), isLoaded |-> TRUE],
              threw |-> FALSE, error |-> ""]

\* new DataLoader()
NewDataLoader == [data |-> <<>>, isLoaded |-> FALSE]

\* ------------------------------------------------------------------------
\* lib/artworks.ts: parseCSVData, which generates artworks.json
\* ------------------------------------------------------------------------

headerMap(header) ==
    LET h == toLowerCase(header) IN
    IF h = H_artwork_name THEN K_artworkName
    ELSE IF h = H_song_genre THEN K_songGenre
    ELSE IF h = H_song_title THEN K_songTitle
    ELSE IF h = H_artistic_category THEN K_artisticCategory
    ELSE IF h \in {K_cover, K_artist, K_mood, K_year, K_collections} THEN h
    ELSE header

\* the filter of line 396
itemComplete(item) == ~Falsy(Get(item, K_cover)) /\ ~Falsy(Get(item, K_artworkName))

toArtwork(item) ==
    [ cover            |-> OrElse(Get(item, K_cover), <<>>),
      artworkName      |-> OrElse(Get(item, K_artworkName), <<>>),
      songGenre        |-> OrElse(Get(item, K_songGenre), <<>>),
      artist           |-> OrElse(Get(item, K_artist), <<>>),
      songTitle        |-> OrElse(Get(item, K_songTitle), <<>>),
      artisticCategory |-> OrElse(Get(item, K_artisticCategory), <<>>),
      mood             |-> OrElse(Get(item, K_mood), <<>>),
      year             |-> OrElse(Get(item, K_year), <<>>),
      collections      |-> OrElse(Get(item, K_collections), <<>>) ]

parseCSVData(csvContent) ==
    LET rows   == papaRows(csvContent)
        fields == IF rows = <<>> THEN <<>>
                  ELSE [j \in 1..Len(rows[1]) |-> headerMap(rows[1][j])]
        data   == papaParse(fields, rows)
        kept == keepIdx(data, {i \in 1..Len(data) : itemComplete(data[i])}, 1)
    IN  [i \in 1..Len(kept) |-> toArtwork(kept[i])]

\* ------------------------------------------------------------------------
\* Filter queries: a JS object, modelled as a function from its keys that
\* hold a defined value to those values
\* ------------------------------------------------------------------------

NoFilters == [k \in {} |-> <<>>]

\* { ...filters, [key]: value }
SetKey(filters, key, value) ==
    [k \in DOMAIN filters \cup {key} |-> IF k = key THEN value ELSE filters[k]]

\* { ...filters, [key]: undefined }
DelKey(filters, key) == [k \in DOMAIN filters \ {key} |-> filters[k]]

\* { ...filters, [key]: value || undefined }
SetOrDel(filters, key, value) ==
    IF value # <<>> THEN SetKey(filters, key, value) ELSE DelKey(filters, key)

\* if (filters.key)
Truthy(filters, key) == key \in DOMAIN filters /\ filters[key] # <<>>

\* ------------------------------------------------------------------------
\* DataProcessor.filterRecords (threejs-app/js/data.js)
\* ------------------------------------------------------------------------

searchableTextOf(record) ==
    IF record.searchTerms # <<>> THEN record.searchTerms
    ELSE searchTermsOf(record.artworkName, record.genre, record.artist, record.songTitle,
                       record.artisticCategory, record.mood, record.colors, record.collections)

recordMatches(record, filters) ==
    /\ Truthy(filters, "search") =>
          includes(searchableTextOf(record), toLowerCase(filters["search"]))
    /\ Truthy(filters, "genre") => record.genre = filters["genre"]
    /\ Truthy(filters, "artist") => record.artist = filters["artist"]
    /\ Truthy(filters, "mood") => record.mood = filters["mood"]
    /\ Truthy(filters, "collection") => arrayIncludes(record.collections, filters["collection"])

filterRecords(records, filters) ==
    keepIdx(records, {i \in 1..Len(records) : recordMatches(records[i], filters)}, 1)

\* ------------------------------------------------------------------------
\* SimpleFilterManager.applyFilters (threejs-app/js/simple-filters.js)
\* ------------------------------------------------------------------------

simpleSearchableText(record) ==
    toLowerCase(join(<<record.artworkName, record.artist, record.songTitle, record.genre,
                       record.mood>> \o record.colors \o record.collections, <<" ">>))

simpleMatches(record, filters) ==
    /\ (Truthy(filters, "search") /\ trim(filters["search"]) # <<>>) =>
          includes(simpleSearchableText(record), toLowerCase(filters["search"]))
    /\ Truthy(filters, "genre") => record.genre = filters["genre"]
    /\ Truthy(filters, "mood") => record.mood = filters["mood"]

simpleFilter(allRecords, filters) ==
    keepIdx(allRecords, {i \in 1..Len(allRecords) : simpleMatches(allRecords[i], filters)}, 1)

\* ------------------------------------------------------------------------
\* DataLoader.search and CratediggerApp.applyFilters (src/data/dataLoader.js,
\* src/main.js)
\* ------------------------------------------------------------------------

searchHit(item, q) ==
    \/ includes(toLowerCase(item.artist), q)
    \/ includes(toLowerCase(item.songTitle), q)
    \/ includes(toLowerCase(item.artworkName), q)
    \/ includes(toLowerCase(item.songGenre), q)
    \/ includes(toLowerCase(item.mood), q)
    \/ \E t \in 1..Len(item.tags) : includes(item.tags[t], q)

DataLoader_search(data, query) ==
    keepIdx(data, {i \in 1..Len(data) : searchHit(data[i], toLowerCase(query))}, 1)

genreStep(filtered, filters) ==
    IF Truthy(filters, "genre")
    THEN keepIdx(filtered, {i \in 1..Len(filtered) :
            includes(toLowerCase(filtered[i].songGenre), toLowerCase(filters["genre"]))}, 1)
    ELSE filtered

moodStep(filtered, filters) ==
    IF Truthy(filters, "mood")
    THEN keepIdx(filtered, {i \in 1..Len(filtered) :
            includes(toLowerCase(filtered[i].mood), toLowerCase(filters["mood"]))}, 1)
    ELSE filtered

colorStep(filtered, filters) ==
    IF Truthy(filters, "color")
    THEN keepIdx(filtered, {i \in 1..Len(filtered) :
            arrayIncludes(filtered[i].colors, toLowerCase(filters["color"]))}, 1)
    ELSE filtered

searchStep(allData, loaderData, filters) ==
    IF Truthy(filters, "search") THEN DataLoader_search(loaderData, filters["search"])
    ELSE allData

\* the list CratediggerApp.applyFilters stores in filteredData
appFiltered(allData, loaderData, filters) ==
    colorStep(moodStep(genreStep(searchStep(allData, loaderData, filters), filters), filters),
              filters)

\* DataLoader.search throws a TypeError on an item: a text field that is
\* undefined is reached before any field holds the query (tags and colors are
\* always the arrays parseTags and parseColors return)
searchItemThrows(item, q) ==
    LET fields == <<item.artist, item.songTitle, item.artworkName, item.songGenre, item.mood>>
    IN  \E k \in 1..5 : /\ fields[k] = Undefined
                        /\ \A j \in 1..(k - 1) : ~includes(toLowerCase(fields[j]), q)

\* CratediggerApp.applyFilters throws a TypeError
appThrows(allData, loaderData, filters) ==
    LET searched == searchStep(allData, loaderData, filters)
        genred   == genreStep(searched, filters)
    IN  \/ /\ Truthy(filters, "search")
           /\ \E i \in 1..Len(loaderData) :
                 searchItemThrows(loaderData[i], toLowerCase(filters["search"]))
        \/ /\ Truthy(filters, "genre")
           /\ \E i \in 1..Len(searched) : searched[i].songGenre = Undefined
        \/ /\ Truthy(filters, "mood")
           /\ \E i \in 1..Len(genred) : genred[i].mood = Undefined

\* ------------------------------------------------------------------------
\* filterArtworks (lib/artworks.ts)
\* ------------------------------------------------------------------------

searchFieldsOf(artwork) ==
    toLowerCase(join(<<artwork.artworkName, artwork.artist, artwork.songTitle,
                       artwork.songGenre, artwork.mood, artwork.artisticCategory,
                       artwork.collections>>, <<" ">>))

\* filterArtworks' predicate with the search test made decisive: an artwork
\* the search text hits is accepted without consulting the other filters
artworkMatches_searchDecides(artwork, filters) ==
    IF Truthy(filters, "search") /\
       includes(searchFieldsOf(artwork), toLowerCase(filters["search"]))
    THEN TRUE
    ELSE /\ ~Truthy(filters, "search")
         /\ Truthy(filters, "genre") =>
               includes(toLowerCase(artwork.songGenre), toLowerCase(filters["genre"]))
         /\ Truthy(filters, "mood") =>
               includes(toLowerCase(artwork.mood), toLowerCase(filters["mood"]))
         /\ Truthy(filters, "category") =>
               includes(toLowerCase(artwork.artisticCategory), toLowerCase(filters["category"]))
         /\ Truthy(filters, "collection") =>
               includes(toLowerCase(artwork.collections), toLowerCase(filters["collection"]))

artworkMatches(artwork, filters) ==
    /\ Truthy(filters, "search") =>
          includes(searchFieldsOf(artwork), toLowerCase(filters["search"]))
    /\ Truthy(filters, "genre") =>
          includes(toLowerCase(artwork.songGenre), toLowerCase(filters["genre"]))
    /\ Truthy(filters, "mood") =>
          includes(toLowerCase(artwork.mood), toLowerCase(filters["mood"]))
    /\ Truthy(filters, "category") =>
          includes(toLowerCase(artwork.artisticCategory), toLowerCase(filters["category"]))
    /\ Truthy(filters, "collection") =>
          includes(toLowerCase(artwork.collections), toLowerCase(filters["collection"]))

filterArtworks(artworks, filters) ==
    keepIdx(artworks, {i \in 1..Len(artworks) : artworkMatches(artworks[i], filters)}, 1)

\* FilterBar's activeFilters: the entries whose value is not ''
activeFilters(filters) == [k \in {x \in DOMAIN filters : filters[x] # <<>>} |-> filters[k]]

\* ------------------------------------------------------------------------
\* Filter options
\* ------------------------------------------------------------------------

\* the characters of the texts, in UTF-16 code unit order
CodeOrder ==
    <<"\n"," ","\"",",",".","/","0","1","2","3","4","5","6","7","8","9",":","A","B","C","D","E","F","G","H","I","J","K","L","M","N","O","P","Q","R","S","T","U","V","W","X","Y","Z","_","a","b","c","d","e","f","g","h","i","j","k","l","m","n","o","p","q","r","s","t","u","v","w","x","y","z">>

charCode(c) == CHOOSE i \in 1..Len(CodeOrder) : CodeOrder[i] = c

\* a < b as Array.prototype.sort compares strings: by code units
lessThan(a, b) ==
    \E k \in 1..(Len(a) + 1) :
        /\ \A i \in 1..(k - 1) : i <= Len(b) /\ a[i] = b[i]
        /\ k <= Len(b)
        /\ k > Len(a) \/ charCode(a[k]) < charCode(b[k])

\* Array.prototype.sort() with the default comparator (stable)
sort(arr) ==
    LET rank(i) == Cardinality({j \in 1..Len(arr) :
                        lessThan(arr[j], arr[i]) \/ (arr[j] = arr[i] /\ j < i)})
    IN  [k \in 1..Len(arr) |-> arr[CHOOSE i \in 1..Len(arr) : rank(i) = k - 1]]

\* Array.from(set).sort()
sortSet(S) ==
    [k \in 1..Cardinality(S) |->
        CHOOSE x \in S : Cardinality({y \in S : lessThan(y, x)}) = k - 1]

\* Array.prototype.flat on an array of arrays
RECURSIVE flat(_)
flat(arrs) == IF arrs = <<>> THEN <<>> ELSE Head(arrs) \o flat(Tail(arrs))

\* DataProcessor.getFilterOptions
DataProcessor_getFilterOptions(dp) ==
    [ genres      |-> sortSet(dp.genres),
      artists     |-> sortSet(dp.artists),
      moods       |-> sortSet(dp.moods),
      collections |-> sortSet(dp.collections) ]

\* DataLoader.getFilterOptions
DataLoader_getFilterOptions(data) ==
    [ genres  |-> uniq([i \in 1..Len(data) |-> data[i].songGenre]),
      moods   |-> uniq([i \in 1..Len(data) |-> data[i].mood]),
      artists |-> uniq([i \in 1..Len(data) |-> data[i].artist]),
      colors  |-> uniq(flat([i \in 1..Len(data) |-> data[i].colors])),
      tags    |-> uniq(flat([i \in 1..Len(data) |-> data[i].tags])) ]

\* the flatMap callback of getUniqueValues
splitValue(value) ==
    IF includes(value, <<",">>) THEN mapTrim(split(value, ",")) ELSE <<value>>

\* getUniqueValues, of the values of one field
getUniqueValues(values) ==
    LET truthy == nonEmpty(values)
    IN  sort(uniq(flat([i \in 1..Len(truthy) |-> splitValue(truthy[i])])))

\* ------------------------------------------------------------------------
\* The environment: the files the entry points fetch, and the values a user
\* can enter
\* ------------------------------------------------------------------------

\* the header line of DiggerDB.csv
Header ==
    <<"c","o","v","e","r",",","a","r","t","w","o","r","k"," ","n","a","m","e",",","s","o","n","g"," ","g","e","n","r","e",",","a","r","t","i","s","t",",","s","o","n","g"," ","t","i","t","l","e",",","a","r","t","i","s","t","i","c"," ","c","a","t","e","g","o","r","y",",","m","o","o","d",",","y","e","a","r",",","c","o","l","l","e","c","t","i","o","n","s">>

\* data line: a complete row
Row1 ==
    <<"u","1",",","T","r","i","p",",","I","n","d","i","e",",","A","l",",","S","o",",","O","p",",","C","a","l","m",",","r","e","d",",","j","a","z","z">>

\* data line: quoted multi-value fields with repeated and empty tokens
Row2 ==
    <<"u","2",",","D","u","s","k",",","i","n","d","i","e",",","B","o",",","U","p",",","Z","e","n",",","D","a","r","k",",","\"","P","i","n","k",","," ","p","i","n","k","\"",",","\"","j","a","z","z",",",",","r","o","c","k",",","j","a","z","z","\"">>

\* data line: no cover
Row3 ==
    <<",","T","r","i","p",",","I","n","d","i","e",",","A","l",",","S","o",",","O","p",",","C","a","l","m",",","r","e","d",",","j","a","z","z">>

\* data line: no artist
Row4 ==
    <<"u","4",",","M","i","s","t",",","I","n","d","i","e",",",",","S","o",",","O","p",",","C","a","l","m",",","r","e","d",",","j","a","z","z">>

\* data line: fewer fields than the header
Row5 ==
    <<"u","5",",","S","o","l","o",",","I","n","d","i","e",",","A","l",",","S","o">>

\* data line: more fields than the header
Row6 ==
    <<"u","6",",","T","r","i","p",",","I","n","d","i","e",",","A","l",",","S","o",",","O","p",",","C","a","l","m",",","r","e","d",",","j","a","z","z",",","r","o","c","k">>

\* data line: optional fields empty
Row7 ==
    <<"u","7",",",",",",","C","y",",","H","i",",",",",",",",">>

Rows == <<Row1, Row2, Row3, Row4, Row5, Row6, Row7>>

\* the most data lines a source text has
MaxRows == 2

MkText(lines) == join(lines, <<"\n">>)

\* the source texts: the empty text, and the header followed by at most
\* MaxRows of the data lines
Texts ==
    {<<>>} \cup
    { MkText(<<Header>> \o keepIdx(Rows, I, 1)) :
        I \in {J \in SUBSET (1..Len(Rows)) : Cardinality(J) <= MaxRows} }

\* the first data line of the round-trip scenario: ten fields, the collections
\* unquoted
ScenarioRow1 ==
    <<"h","t","t","p",":","/","/","x","/","a",".","j","p","g",",","T","r","i","p",",","P","s","y","c","h","e","d","e","l","i","c",",","M","i","l","e","s"," ","D","a","v","i","s",",","S","o"," ","W","h","a","t",",","a","b","s","t","r","a","c","t",",","E","u","p","h","o","r","i","c",",","2","0","0","1",",","j","a","z","z",",","c","l","a","s","s","i","c">>

\* the second data line of the round-trip scenario: no cover and no artist
ScenarioRow2 ==
    <<",","U","n","t","i","t","l","e","d",",","I","n","d","i","e",",",",","N","o","t","h","i","n","g",",","a","b","s","t","r","a","c","t",",","C","a","l","m",",","1","9","9","9",",">>

\* the three-line CSV of the round-trip scenario
ScenarioText == MkText(<<Header, ScenarioRow1, ScenarioRow2>>)

\* the texts a fetch of the CSV file can answer with
FetchedTexts == Texts \cup {ScenarioText}

\* the body a server sends with a 404
NotFoundBody == <<"4","0","4">>

FetchOutcomes ==
    {[status |-> "ok", body |-> t] : t \in FetchedTexts}
    \cup {[status |-> "notfound", body |-> NotFoundBody], [status |-> "neterr", body |-> <<>>]}

NoFetch == [status |-> "unused", body |-> <<>>]

\* the records of data/sample-records.json
SampleRecords ==
    <<createRecord(parseCSVRow(Header), parseCSVRow(Row1), 1),
      createRecord(parseCSVRow(Header), parseCSVRow(Row2), 2)>>

\* a JSON document converted from a CSV text whose second data line has no
\* artist
IncompleteRecords ==
    DataProcessor_parseCSV(NewDataProcessor, MkText(<<Header, Row1, Row4>>)).records

\* the record lists a fetched JSON document can hold
JsonDocuments == {SampleRecords, IncompleteRecords, <<>>}

\* the answers to the fetch of the JSON document: a document, a body that is
\* not JSON, a 404, a rejected fetch
JsonOutcomes ==
    {[status |-> "ok", body |-> d] : d \in JsonDocuments}
    \cup {[status |-> st, body |-> <<>>] : st \in {"badjson", "notfound", "neterr"}}

\* the CSV file that lies beside a JSON document
CsvBesideJson == [status |-> "ok", body |-> MkText(<<Header, Row1, Row2>>)]

SearchTexts == {<<>>, <<" ">>, <<"o","p">>}

GenreValues == {<<>>, <<"I","n","d","i","e">>, <<"i","n","d">>}

MoodValues == {<<>>, <<"D","a","r","k">>}

ArtistValues == {<<>>, <<"A","l">>}

ColorValues == {<<>>, <<"r","e","d">>}

CategoryValues == {<<>>, <<"O","p">>}

CollectionValues == {<<>>, <<"j","a","z","z">>}

\* ------------------------------------------------------------------------
\* State
\* ------------------------------------------------------------------------

VARIABLES
    entry,          \* which entry point of the repository is running
    csv,            \* outcome of fetching DiggerDB.csv
    json,           \* outcome of fetching the JSON document
    digggin,        \* DIGGGINApp (threejs-app)
    dataProcessor,  \* DataProcessor
    recordManager,  \* RecordManager
    filterManager,  \* SimpleFilterManager
    dataLoader,     \* DataLoader
    cratediggerApp, \* CratediggerApp (src/main.js)
    filterPanel,    \* FilterPanel
    visualizer,     \* CratediggerVisualizer
    home,           \* Home (src/app/page.tsx)
    filterBar,      \* FilterBar
    crate,          \* the crate-digger entry point (loadAndStartApp)
    reload,         \* the load calls made on one DataProcessor or DataLoader
    typing,         \* the search input: its value, its timer, the current burst
    call,           \* a direct call of a parsing function: its argument and result
    sceneManager    \* SceneManager: its record meshes, the hovered and the selected one

vars == <<entry, csv, json, digggin, dataProcessor, recordManager, filterManager,
          dataLoader, cratediggerApp, filterPanel, visualizer, home, filterBar, crate,
          reload, typing, call, sceneManager>>

sessionVars == <<reload, typing, call, sceneManager>>

envVars == <<entry, csv, json>>

threeVars == <<digggin, dataProcessor, recordManager, filterManager>>

viteVars == <<dataLoader, cratediggerApp, filterPanel, visualizer>>

nextVars == <<home, filterBar>>

\* RecordManager.maxDisplayRecords
maxDisplayRecords == 100

\* the count getRandomSelection is called with
randomSelectionCount == 50

\* no filter options populated yet
NoOptions == [genres |-> <<>>, moods |-> <<>>]

EmptyFilterPanel ==
    [search |-> <<>>, genre |-> <<>>, mood |-> <<>>, color |-> <<>>]

EmptyFilterBar ==
    [genre |-> <<>>, mood |-> <<>>, category |-> <<>>, collection |-> <<>>, search |-> <<>>]

\* CratediggerVisualizer (src/three/cratediggerVisualizer.js).  records holds
\* the userData of the meshes of this.records; selectedRecord tells which mesh
\* object this.selectedRecord refers to: none ("null"), the mesh at an index
\* of this.records ("shown"), or a mesh that is no longer in this.records
\* ("removed", with its userData).
NullRecord == [kind |-> "null", index |-> 0, userData |-> <<>>]

NewVisualizer == [records |-> <<>>, selectedRecord |-> NullRecord]

\* the most record meshes addRecords creates
recordsToShowLimit == 20

\* CratediggerVisualizer.clearRecords: the meshes leave the scene and the
\* list; selectedRecord is not assigned
clearRecords(v) ==
    [records |-> <<>>,
     selectedRecord |->
        IF v.selectedRecord.kind = "shown"
        THEN [kind |-> "removed", index |-> 0,
              userData |-> <<v.records[v.selectedRecord.index]>>]
        ELSE v.selectedRecord]

\* CratediggerVisualizer.addRecords: clearRecords, then a new mesh for each
\* of the first recordsToShowLimit items
addRecords(v, data) ==
    [clearRecords(v) EXCEPT
        !.records = SubSeq(data, 1, IF Len(data) < recordsToShowLimit
                                    THEN Len(data) ELSE recordsToShowLimit)]

\* CratediggerVisualizer.selectRecord with the mesh at an index of records
selectRecord(v, index) ==
    [v EXCEPT !.selectedRecord = [kind |-> "shown", index |-> index, userData |-> <<>>]]

\* SceneManager (threejs-app/js/scene.js).  scale holds ten times the scale
\* of each mesh of this.records; hoveredRecord and selectedRecord are the
\* index of a mesh in this.records, 0 for null.
NewSceneManager == [scale |-> <<>>, hoveredRecord |-> 0, selectedRecord |-> 0]

\* the scale createRecord gives a mesh, and setHoveredRecord and
\* setSelectedRecord give the record they leave
restScale == 8

\* the scale of the hovered record
hoverScale == 9

\* the scale of the selected record
selectedScale == 10

\* SceneManager.positionRecords: clearRecords, then createRecord for each
\* of count records
positionRecords(count) ==
    [scale |-> [i \in 1..count |-> restScale], hoveredRecord |-> 0, selectedRecord |-> 0]

\* SceneManager.setHoveredRecord
setHoveredRecord(sm, record) ==
    LET reset == IF sm.hoveredRecord # 0
                 THEN [sm.scale EXCEPT ![sm.hoveredRecord] = restScale]
                 ELSE sm.scale
    IN  [sm EXCEPT !.hoveredRecord = record,
                   !.scale = IF record # 0 THEN [reset EXCEPT ![record] = hoverScale]
                             ELSE reset]

\* SceneManager.setSelectedRecord
setSelectedRecord(sm, record) ==
    LET reset == IF sm.selectedRecord # 0
                 THEN [sm.scale EXCEPT ![sm.selectedRecord] = restScale]
                 ELSE sm.scale
    IN  [sm EXCEPT !.selectedRecord = record,
                   !.scale = IF record # 0 THEN [reset EXCEPT ![record] = selectedScale]
                             ELSE reset]

\* DIGGGINApp.setLoadingState
setLoadingState_shown(app, loading) == [app EXCEPT !.isLoading = TRUE]
setLoadingState(app, loading) == [app EXCEPT !.isLoading = loading]

\* no load call made yet
NoReload == [started |-> 0, inflight |-> {}, completed |-> {}, held |-> 0, last |-> <<>>]

\* nothing typed yet, no timer pending
NoTyping == [value |-> <<>>, timer |-> FALSE, quiet |-> TRUE, keys |-> 0, runs |-> 0]

\* no direct call
NoCall == [kind |-> "none"]

\* the objects as their constructors leave them
Constructed ==
    /\ digggin = [phase |-> "init", error |-> "", isLoading |-> FALSE]
    /\ dataProcessor = NewDataProcessor
    /\ recordManager = [currentRecords |-> <<>>, displayedRecords |-> <<>>,
                        currentFilters |-> NoFilters, maxDisplayRecords |-> maxDisplayRecords,
                        filterOptions |-> NoOptions, isLoading |-> FALSE]
    /\ filterManager = [allRecords |-> <<>>, filteredRecords |-> <<>>,
                        currentFilters |-> NoFilters]
    /\ dataLoader = NewDataLoader
    /\ cratediggerApp = [allData |-> <<>>, filteredData |-> <<>>, phase |-> "init", error |-> ""]
    /\ filterPanel = [filters |-> EmptyFilterPanel, onFilter |-> FALSE, options |-> NoOptions]
    /\ visualizer = NewVisualizer
    /\ home = [allArtworks |-> <<>>, filteredArtworks |-> <<>>, isLoading |-> TRUE, error |-> "",
               genres |-> <<>>, moods |-> <<>>, categories |-> <<>>, collections |-> <<>>]
    /\ filterBar = [filters |-> EmptyFilterBar]
    /\ crate = [phase |-> "init", records |-> <<>>, usedFallback |-> FALSE, error |-> "",
                handed |-> <<>>]
    /\ reload = NoReload
    /\ typing = NoTyping
    /\ sceneManager = NewSceneManager

Init ==
    /\ \/ entry \in {"three", "vite", "crate"} /\ csv \in FetchOutcomes /\ json = NoFetch
       \/ entry = "next" /\ csv \in FetchOutcomes /\ csv.status = "ok"
                         /\ json \in {[status |-> st, body |-> <<>>] : st \in {"ok", "notfound", "neterr"}}
       \/ entry = "fallback"
            /\ json \in JsonOutcomes
            /\ IF json.status = "ok" THEN csv = CsvBesideJson ELSE csv \in FetchOutcomes
    /\ Constructed
    /\ call = NoCall

\* ------------------------------------------------------------------------
\* threejs-app, 3D mode: DIGGGINApp.loadData and RecordManager
\* ------------------------------------------------------------------------

IndexPermutations(n) == {p \in [1..n -> 1..n] : \A a, b \in 1..n : p[a] = p[b] => a = b}

\* arr.slice(0, n)
firstN(arr, n) == IF Len(arr) <= n THEN arr ELSE SubSeq(arr, 1, n)

\* the longest array of which every order is considered
MaxShuffled == 3

\* arr.sort(() => 0.5 - Math.random()): the orders a random comparator can give;
\* of an array longer than MaxShuffled, only the order it has and the reverse
Shuffles(arr) ==
    IF Len(arr) <= MaxShuffled
    THEN {[i \in 1..Len(arr) |-> arr[p[i]]] : p \in IndexPermutations(Len(arr))}
    ELSE {arr, [i \in 1..Len(arr) |-> arr[Len(arr) + 1 - i]]}

\* the lists getRecordsToDisplay can return
getRecordsToDisplay(dp, rm) ==
    {firstN(sh, rm.maxDisplayRecords) : sh \in Shuffles(filterRecords(dp.records, rm.currentFilters))}

\* DIGGGINApp.loadData, with RecordManager.loadRecords on the fetched text
Three_loadData ==
    /\ entry = "three" /\ digggin.phase = "init"
    /\ IF csv.status # "ok"
       THEN /\ digggin' = setLoadingState([digggin EXCEPT !.phase = "failed", !.error = "Failed to load record data"], FALSE)
            /\ UNCHANGED <<dataProcessor, recordManager, sceneManager>>
       ELSE /\ dataProcessor' = DataProcessor_parseCSV(dataProcessor, csv.body)
            /\ \E shown \in getRecordsToDisplay(dataProcessor',
                              [recordManager EXCEPT !.currentRecords = dataProcessor'.records]) :
                   recordManager' = [recordManager EXCEPT
                                        !.currentRecords = dataProcessor'.records,
                                        !.displayedRecords = shown,
                                        !.filterOptions =
                                           DataProcessor_getFilterOptions(dataProcessor'),
                                        !.isLoading = FALSE]
            /\ sceneManager' = positionRecords(Len(recordManager'.displayedRecords))
            /\ digggin' = setLoadingState([digggin EXCEPT !.phase = "ready", !.error = ""], FALSE)
    /\ UNCHANGED <<envVars, reload, typing, call, filterManager, viteVars, nextVars, crate>>

\* RecordManager.applyFilters
RecordManager_applyFilters(filters) ==
    /\ \E shown \in getRecordsToDisplay(dataProcessor,
                        [recordManager EXCEPT !.currentFilters = filters]) :
           recordManager' = [recordManager EXCEPT !.currentFilters = filters,
                                                  !.displayedRecords = shown]
    /\ sceneManager' = positionRecords(Len(recordManager'.displayedRecords))
    /\ UNCHANGED <<envVars, reload, typing, call, digggin, dataProcessor, filterManager, viteVars,
                   nextVars, crate>>

\* the debounced callback of the search input: searchRecords(text)
Three_searchRecords ==
    /\ entry = "three"
    /\ \E text \in SearchTexts :
           RecordManager_applyFilters(SetKey(recordManager.currentFilters, "search", text))

\* change of the genre select: filterByGenre(value)
Three_filterByGenre ==
    /\ entry = "three"
    /\ \E genre \in GenreValues :
           RecordManager_applyFilters(SetOrDel(recordManager.currentFilters, "genre", genre))

\* change of the mood select: filterByMood(value)
Three_filterByMood ==
    /\ entry = "three"
    /\ \E mood \in MoodValues :
           RecordManager_applyFilters(SetOrDel(recordManager.currentFilters, "mood", mood))

\* RecordManager.filterByArtist
Three_filterByArtist ==
    /\ entry = "three"
    /\ \E artist \in ArtistValues :
           RecordManager_applyFilters(SetOrDel(recordManager.currentFilters, "artist", artist))

\* RecordManager.clearFilters
Three_clearFilters ==
    /\ entry = "three"
    /\ RecordManager_applyFilters(NoFilters)

\* RecordManager.getRandomSelection(50), with DataProcessor.getRandomRecords
Three_getRandomSelection ==
    /\ entry = "three"
    /\ \E sh \in Shuffles(dataProcessor.records) :
           recordManager' = [recordManager EXCEPT
                                !.displayedRecords = firstN(sh, randomSelectionCount)]
    /\ sceneManager' = positionRecords(Len(recordManager'.displayedRecords))
    /\ UNCHANGED <<envVars, reload, typing, call, digggin, dataProcessor, filterManager, viteVars,
                   nextVars, crate>>

\* the limit DIGGGINApp.adjustPerformanceSettings sets
reducedDisplayRecords == 50

\* DIGGGINApp.onPerformanceWarning with a low_fps warning of the performance
\* monitor, which init starts after the load: adjustPerformanceSettings
Three_adjustPerformanceSettings ==
    /\ entry = "three" /\ digggin.phase = "ready"
    /\ recordManager' = [recordManager EXCEPT !.maxDisplayRecords = reducedDisplayRecords]
    /\ UNCHANGED <<envVars, sessionVars, digggin, dataProcessor, filterManager, viteVars, nextVars, crate>>

\* RecordManager.browseByGenre
Three_browseByGenre ==
    /\ entry = "three"
    /\ \E genre \in GenreValues :
          recordManager' = [recordManager EXCEPT
             !.displayedRecords =
                firstN(keepIdx(recordManager.currentRecords,
                               {i \in 1..Len(recordManager.currentRecords) :
                                   recordManager.currentRecords[i].genre = genre}, 1),
                       recordManager.maxDisplayRecords)]
    /\ sceneManager' = positionRecords(Len(recordManager'.displayedRecords))
    /\ UNCHANGED <<envVars, reload, typing, call, digggin, dataProcessor, filterManager, viteVars,
                   nextVars, crate>>

\* ------------------------------------------------------------------------
\* threejs-app, fallback mode: DIGGGINApp.loadDataFallback and
\* SimpleFilterManager
\* ------------------------------------------------------------------------

\* SimpleFilterManager.setRecords
setRecords(fm, records) == [fm EXCEPT !.allRecords = records, !.filteredRecords = records]

\* SimpleFilterManager.applyFilters
SimpleFilterManager_applyFilters(fm, filters) ==
    [fm EXCEPT !.currentFilters = filters,
               !.filteredRecords = simpleFilter(fm.allRecords, filters)]

\* DIGGGINApp.loadDataFallback
Fallback_loadDataFallback ==
    /\ entry = "fallback" /\ digggin.phase = "init"
    /\ IF json.status = "ok"
       THEN /\ filterManager' = setRecords(filterManager, json.body)
            /\ digggin' = setLoadingState([digggin EXCEPT !.phase = "ready", !.error = ""], FALSE)
            /\ UNCHANGED dataProcessor
       ELSE IF json.status = "notfound"
       THEN /\ filterManager' = setRecords(filterManager, <<>>)
            /\ digggin' = setLoadingState([digggin EXCEPT !.phase = "ready", !.error = ""], FALSE)
            /\ UNCHANGED dataProcessor
       ELSE IF csv.status = "neterr"
       THEN /\ digggin' = setLoadingState([digggin EXCEPT !.phase = "failed", !.error = "Failed to load record data."], FALSE)
            /\ UNCHANGED <<dataProcessor, filterManager>>
       ELSE /\ dataProcessor' = DataProcessor_parseCSV(dataProcessor, csv.body)
            /\ filterManager' = setRecords(filterManager, dataProcessor'.records)
            /\ digggin' = setLoadingState([digggin EXCEPT !.phase = "ready", !.error = ""], FALSE)
    /\ UNCHANGED <<envVars, sessionVars, recordManager, viteVars, nextVars, crate>>

Fallback_apply(filters) ==
    /\ entry = "fallback"
    /\ filterManager' = SimpleFilterManager_applyFilters(filterManager, filters)
    /\ UNCHANGED <<envVars, sessionVars, digggin, dataProcessor, recordManager, viteVars, nextVars, crate>>

\* the debounced callback of the search input
Fallback_search ==
    \E text \in SearchTexts :
        Fallback_apply(SetKey(filterManager.currentFilters, "search", text))

\* change of the genre select (value || null)
Fallback_genre ==
    \E genre \in GenreValues :
        Fallback_apply(SetOrDel(filterManager.currentFilters, "genre", genre))

\* change of the mood select (value || null)
Fallback_mood ==
    \E mood \in MoodValues :
        Fallback_apply(SetOrDel(filterManager.currentFilters, "mood", mood))

\* SimpleFilterManager.clearFilters
Fallback_clearFilters ==
    /\ entry = "fallback"
    /\ filterManager' = [filterManager EXCEPT !.currentFilters = NoFilters,
                                              !.filteredRecords = filterManager.allRecords]
    /\ UNCHANGED <<envVars, sessionVars, digggin, dataProcessor, recordManager, viteVars, nextVars, crate>>

\* ------------------------------------------------------------------------
\* Vite app: CratediggerApp, DataLoader, FilterPanel (src/main.js)
\* ------------------------------------------------------------------------

\* CratediggerApp.init
Vite_init ==
    /\ entry = "vite" /\ cratediggerApp.phase = "init"
    /\ LET r == DataLoader_loadData(dataLoader, csv.status, csv.body) IN
       IF r.threw
       THEN /\ cratediggerApp' = [cratediggerApp EXCEPT
                                    !.phase = "failed",
                                    !.error = "Failed to load the cratedigger experience"]
            /\ UNCHANGED <<dataLoader, filterPanel, visualizer>>
       ELSE /\ dataLoader' = r.loader
            /\ cratediggerApp' = [cratediggerApp EXCEPT !.allData = r.loader.data,
                                                        !.filteredData = r.loader.data,
                                                        !.phase = "ready"]
            /\ filterPanel' = [filterPanel EXCEPT
                                 !.options = DataLoader_getFilterOptions(r.loader.data),
                                 !.onFilter = TRUE]
            /\ visualizer' = addRecords(NewVisualizer, r.loader.data)
    /\ UNCHANGED <<envVars, sessionVars, threeVars, nextVars, crate>>

\* a FilterPanel listener: store the filters, then FilterPanel.applyFilters,
\* which calls CratediggerApp.applyFilters when onFilter is set
Vite_filter(filters) ==
    /\ entry = "vite" /\ cratediggerApp.phase # "failed"
    /\ filterPanel' = [filterPanel EXCEPT !.filters = filters]
    /\ cratediggerApp' =
          IF filterPanel.onFilter /\
             ~appThrows(cratediggerApp.allData, dataLoader.data, filters)
          THEN [cratediggerApp EXCEPT
                  !.filteredData = appFiltered(cratediggerApp.allData, dataLoader.data, filters)]
          ELSE cratediggerApp
    /\ visualizer' =
          IF filterPanel.onFilter /\
             ~appThrows(cratediggerApp.allData, dataLoader.data, filters)
          THEN addRecords(visualizer,
                          appFiltered(cratediggerApp.allData, dataLoader.data, filters))
          ELSE visualizer
    /\ UNCHANGED <<envVars, sessionVars, threeVars, dataLoader, nextVars, crate>>

Vite_searchInput ==
    \E text \in SearchTexts : Vite_filter([filterPanel.filters EXCEPT !.search = text])

Vite_genreChange ==
    \E genre \in GenreValues : Vite_filter([filterPanel.filters EXCEPT !.genre = genre])

Vite_moodChange ==
    \E mood \in MoodValues : Vite_filter([filterPanel.filters EXCEPT !.mood = mood])

Vite_colorChange ==
    \E color \in ColorValues : Vite_filter([filterPanel.filters EXCEPT !.color = color])

\* FilterPanel.clearFilters
Vite_clearFilters == Vite_filter(EmptyFilterPanel)

\* a click on the container: handleRecordSelection selects the record mesh
\* the ray meets; a click that meets none changes nothing
Vite_click ==
    /\ entry = "vite" /\ cratediggerApp.phase = "ready"
    /\ \E i \in 1..Len(visualizer.records) : visualizer' = selectRecord(visualizer, i)
    /\ UNCHANGED <<envVars, sessionVars, threeVars, dataLoader, cratediggerApp, filterPanel,
                   nextVars, crate>>

\* ------------------------------------------------------------------------
\* Next.js app: Home and FilterBar (src/app/page.tsx)
\* ------------------------------------------------------------------------

\* the effect of Home: loadData.  artworks.json is what parseCSVData made of
\* DiggerDB.csv when the site was built.
Next_loadData ==
    /\ entry = "next" /\ home.isLoading
    /\ IF json.status = "ok"
       THEN LET artworks == parseCSVData(csv.body) IN
            home' = [allArtworks |-> artworks,
                     filteredArtworks |-> filterArtworks(artworks, activeFilters(filterBar.filters)),
                     genres |-> getUniqueValues([i \in 1..Len(artworks) |-> artworks[i].songGenre]),
                     moods |-> getUniqueValues([i \in 1..Len(artworks) |-> artworks[i].mood]),
                     categories |->
                        getUniqueValues([i \in 1..Len(artworks) |-> artworks[i].artisticCategory]),
                     collections |->
                        getUniqueValues([i \in 1..Len(artworks) |-> artworks[i].collections]),
                     isLoading |-> FALSE, error |-> ""]
       ELSE home' = [home EXCEPT !.isLoading = FALSE,
                                 !.error = IF json.status = "notfound"
                                           THEN "Failed to load artworks" ELSE "fetch rejected"]
    /\ UNCHANGED <<envVars, sessionVars, threeVars, viteVars, filterBar, crate>>

\* FilterBar: setFilters, then its effect calls Home.handleFilterChange
Next_setFilters(filters) ==
    /\ entry = "next" /\ ~home.isLoading /\ home.error = ""
    /\ filterBar' = [filters |-> filters]
    /\ home' = [home EXCEPT
                  !.filteredArtworks = filterArtworks(home.allArtworks, activeFilters(filters))]
    /\ UNCHANGED <<envVars, sessionVars, threeVars, viteVars, crate>>

Next_handleFilterChange ==
    \/ \E v \in SearchTexts : Next_setFilters([filterBar.filters EXCEPT !.search = v])
    \/ \E v \in GenreValues : Next_setFilters([filterBar.filters EXCEPT !.genre = v])
    \/ \E v \in MoodValues : Next_setFilters([filterBar.filters EXCEPT !.mood = v])
    \/ \E v \in CategoryValues : Next_setFilters([filterBar.filters EXCEPT !.category = v])
    \/ \E v \in CollectionValues : Next_setFilters([filterBar.filters EXCEPT !.collection = v])

\* FilterBar.clearFilters
Next_clearFilters == Next_setFilters(EmptyFilterBar)

\* ------------------------------------------------------------------------
\* Crate-digger entry point: loadAndStartApp
\* ------------------------------------------------------------------------

\* the demo records of lines 84-109
fallbackData ==
    << [title |-> "So What", artist |-> "Miles Davis", year |-> "2001",
        id |-> "SOBYBNV14607703ACA", hasSleeve |-> FALSE],
       [title |-> "Blue Train", artist |-> "John Coltrane", year |-> "1957",
        id |-> "SOACYSS145FEBAD8C6", hasSleeve |-> FALSE],
       [title |-> "My Funny Valentine", artist |-> "Chet Baker", year |-> "1954",
        id |-> "SOAAQIZ144C486A932", hasSleeve |-> FALSE] >>

\* loadAndStartApp.  crate.handed lists the calls of cratedigger.loadRecords.
\* scripts/cratedigger.js is not among the sources: its init and loadRecords
\* are taken to return without throwing.
Crate_loadAndStartApp ==
    /\ entry = "crate" /\ crate.phase = "init"
    /\ LET r == CSVParser_loadCSV(csv.status, csv.body) IN
       crate' = IF r.threw
                THEN [phase |-> "started", records |-> fallbackData, usedFallback |-> TRUE,
                      handed |-> Append(crate.handed, "demo"),
                      error |-> r.error]
                ELSE [phase |-> "started", records |-> r.records, usedFallback |-> FALSE,
                      handed |-> Append(crate.handed, "csv"),
                      error |-> ""]
    /\ UNCHANGED <<envVars, sessionVars, threeVars, viteVars, nextVars>>

Next ==
    \/ Three_loadData
    \/ Three_searchRecords
    \/ Three_filterByGenre
    \/ Three_filterByMood
    \/ Three_filterByArtist
    \/ Three_clearFilters
    \/ Three_getRandomSelection
    \/ Fallback_loadDataFallback
    \/ Fallback_search
    \/ Fallback_genre
    \/ Fallback_mood
    \/ Fallback_clearFilters
    \/ Vite_init
    \/ Vite_searchInput
    \/ Vite_genreChange
    \/ Vite_moodChange
    \/ Vite_colorChange
    \/ Vite_clearFilters
    \/ Next_loadData
    \/ Next_handleFilterChange
    \/ Next_clearFilters
    \/ Crate_loadAndStartApp

Spec == Init /\ [][Next]_vars

\* ------------------------------------------------------------------------
\* Repeated loads: a client that calls RecordManager.loadRecords, or
\* DataLoader.loadData, more than once on the same object
\* ------------------------------------------------------------------------

\* the most load calls a client makes
MaxLoads == 2

\* the texts the repeated loads are given
ReloadTexts ==
    {MkText(<<Header, Row1>>), MkText(<<Header, Row2>>), MkText(<<Header, Row1, Row2>>)}

\* the answers to the fetch of a repeated DataLoader.loadData
ReloadOutcomes ==
    {[status |-> "ok", body |-> t] : t \in ReloadTexts} \cup {[status |-> "neterr", body |-> <<>>]}

\* RecordManager.loadRecords(csvData): it has no await, so a call runs to its
\* end before the next one starts
Reload_loadRecords ==
    /\ entry = "three" /\ reload.started < MaxLoads
    /\ \E text \in ReloadTexts :
          /\ dataProcessor' = DataProcessor_parseCSV(dataProcessor, text)
          /\ \E shown \in getRecordsToDisplay(dataProcessor',
                            [recordManager EXCEPT !.currentRecords = dataProcessor'.records]) :
                 recordManager' = [recordManager EXCEPT
                                      !.currentRecords = dataProcessor'.records,
                                      !.displayedRecords = shown,
                                      !.filterOptions =
                                         DataProcessor_getFilterOptions(dataProcessor'),
                                      !.isLoading = FALSE]
          /\ reload' = [reload EXCEPT !.started = @ + 1,
                                      !.completed = @ \cup {reload.started + 1},
                                      !.held = reload.started + 1,
                                      !.last = text]
    /\ sceneManager' = positionRecords(Len(recordManager'.displayedRecords))
    /\ UNCHANGED <<envVars, typing, call, digggin, filterManager, viteVars, nextVars, crate>>

\* DataLoader.loadData up to its await of fetch
Reload_start ==
    /\ entry = "vite" /\ reload.started < MaxLoads
    /\ \E o \in ReloadOutcomes :
          reload' = [reload EXCEPT
                       !.started = @ + 1,
                       !.inflight = @ \cup {[n |-> reload.started + 1,
                                             status |-> o.status, body |-> o.body]}]
    /\ UNCHANGED <<envVars, typing, call, sceneManager, threeVars, viteVars, nextVars, crate>>

\* DataLoader.loadData from the answer of its fetch to its return
Reload_complete ==
    /\ entry = "vite"
    /\ \E l \in reload.inflight :
          LET r == DataLoader_loadData(dataLoader, l.status, l.body) IN
          IF r.threw
          THEN /\ reload' = [reload EXCEPT !.inflight = @ \ {l}]
               /\ UNCHANGED dataLoader
          ELSE /\ dataLoader' = r.loader
               /\ reload' = [reload EXCEPT !.inflight = @ \ {l},
                                           !.completed = @ \cup {l.n},
                                           !.held = l.n,
                                           !.last = l.body]
    /\ UNCHANGED <<envVars, typing, call, sceneManager, threeVars, cratediggerApp, filterPanel, visualizer,
                   nextVars, crate>>

InitReload ==
    /\ entry \in {"three", "vite"} /\ csv = NoFetch /\ json = NoFetch
    /\ Constructed
    /\ call = NoCall

NextReload ==
    \/ Reload_loadRecords
    \/ Reload_start
    \/ Reload_complete

SpecReload == InitReload /\ [][NextReload]_vars

\* ------------------------------------------------------------------------
\* The search input: input events and the timers its listeners set
\* ------------------------------------------------------------------------

\* the most input events of one burst
MaxKeys == 2

\* the delay of the listeners' setTimeout, in milliseconds
searchDelay == 300

\* the burst an input event belongs to: a new one after a quiet period
burstAfterInput(text) ==
    [typing EXCEPT !.value = text, !.quiet = FALSE,
                   !.keys = IF typing.quiet THEN 1 ELSE @ + 1,
                   !.runs = IF typing.quiet THEN 0 ELSE @]

\* an input event on #search with the listener of RecordManager or of
\* SimpleFilterManager: clearTimeout, then setTimeout(..., 300)
Typing_input ==
    /\ entry \in {"three", "fallback"}
    /\ typing.quiet \/ typing.keys < MaxKeys
    /\ \E text \in SearchTexts \ {typing.value} :
          typing' = [burstAfterInput(text) EXCEPT !.timer = TRUE]
    /\ UNCHANGED <<envVars, reload, call, sceneManager, threeVars, viteVars, nextVars, crate>>

\* an input event on #search with the listener of FilterPanel: the filters
\* are applied at once
Typing_inputPanel ==
    /\ entry = "vite" /\ cratediggerApp.phase # "failed"
    /\ typing.quiet \/ typing.keys < MaxKeys
    /\ \E text \in SearchTexts \ {typing.value} :
          LET filters == [filterPanel.filters EXCEPT !.search = text] IN
          /\ typing' = [burstAfterInput(text) EXCEPT !.runs = @ + 1]
          /\ filterPanel' = [filterPanel EXCEPT !.filters = filters]
          /\ cratediggerApp' =
                IF filterPanel.onFilter /\
                   ~appThrows(cratediggerApp.allData, dataLoader.data, filters)
                THEN [cratediggerApp EXCEPT
                        !.filteredData =
                           appFiltered(cratediggerApp.allData, dataLoader.data, filters)]
                ELSE cratediggerApp
          /\ visualizer' =
                IF filterPanel.onFilter /\
                   ~appThrows(cratediggerApp.allData, dataLoader.data, filters)
                THEN addRecords(visualizer,
                                appFiltered(cratediggerApp.allData, dataLoader.data, filters))
                ELSE visualizer
    /\ UNCHANGED <<envVars, reload, call, sceneManager, threeVars, dataLoader, nextVars, crate>>

\* searchDelay milliseconds pass without an input event: a pending timer
\* fires, with the value the input has then
Typing_elapse ==
    /\ entry \in {"three", "fallback", "vite"} /\ ~typing.quiet
    /\ typing' = [typing EXCEPT !.quiet = TRUE, !.timer = FALSE,
                                !.runs = IF typing.timer THEN @ + 1 ELSE @]
    /\ IF typing.timer /\ entry = "three"
       THEN LET filters == SetKey(recordManager.currentFilters, "search", typing.value) IN
            /\ \E shown \in getRecordsToDisplay(dataProcessor,
                               [recordManager EXCEPT !.currentFilters = filters]) :
                   recordManager' = [recordManager EXCEPT !.currentFilters = filters,
                                                          !.displayedRecords = shown]
            /\ sceneManager' = positionRecords(Len(recordManager'.displayedRecords))
            /\ UNCHANGED filterManager
       ELSE IF typing.timer /\ entry = "fallback"
       THEN /\ filterManager' =
                  SimpleFilterManager_applyFilters(filterManager,
                      SetKey(filterManager.currentFilters, "search", typing.value))
            /\ UNCHANGED <<recordManager, sceneManager>>
       ELSE UNCHANGED <<recordManager, filterManager, sceneManager>>
    /\ UNCHANGED <<envVars, reload, call, digggin, dataProcessor, viteVars, nextVars, crate>>

\* the text the typing sessions load
TypingText == MkText(<<Header, Row1, Row2>>)

InitTyping ==
    /\ entry \in {"three", "fallback", "vite"}
    /\ csv = IF entry = "fallback" THEN CsvBesideJson
             ELSE [status |-> "ok", body |-> TypingText]
    /\ json = IF entry = "fallback" THEN [status |-> "ok", body |-> SampleRecords] ELSE NoFetch
    /\ Constructed
    /\ call = NoCall

NextTyping ==
    \/ Three_loadData
    \/ Three_filterByGenre
    \/ Fallback_loadDataFallback
    \/ Fallback_genre
    \/ Vite_init
    \/ Vite_genreChange
    \/ Typing_input
    \/ Typing_inputPanel
    \/ Typing_elapse

SpecTyping == InitTyping /\ [][NextTyping]_vars

\* ------------------------------------------------------------------------
\* Direct calls of the line splitters and of the loaders, on lines and texts
\* written for the call
\* ------------------------------------------------------------------------

\* the most fields of a line given to a line splitter
MaxFields == 2

\* field values without a comma or a quote, with a comma, and with quotes
FieldValues ==
    { <<"A","l">>, <<"a",",","b">>, <<"a","\"","b">>, <<"\"","x","\"">>, <<"x","\"">> }

\* the value with every quote doubled
RECURSIVE doubleQuotes(_)
doubleQuotes(value) ==
    IF value = <<>> THEN <<>>
    ELSE (IF Head(value) = "\"" THEN <<"\"", "\"">> ELSE <<Head(value)>>)
         \o doubleQuotes(Tail(value))

\* the field as RFC 4180 writes it: quoted always, or only when the value
\* holds a comma or a quote
rfcField(value, always) ==
    IF always \/ includes(value, <<",">>) \/ includes(value, <<"\"">>)
    THEN <<"\"">> \o doubleQuotes(value) \o <<"\"">>
    ELSE value

rfcLine(fields, always) ==
    join([i \in 1..Len(fields) |-> rfcField(fields[i], always)], <<",">>)

\* the calls of a line splitter: a line and the field values it encodes
LineCalls ==
    { [kind |-> "line", arg |-> rfcLine(fields, always), fields |-> fields,
       done |-> FALSE, by |-> "", result |-> <<>>] :
        fields \in UNION {[1..n -> FieldValues] : n \in 1..MaxFields},
        always \in BOOLEAN }

\* the columns of DiggerDB.csv, each with the header names the format accepts
\* and the value of the one data line
Columns ==
    << [field |-> "cover", names |-> <<K_cover>>, value |-> <<"u","1">>],
       [field |-> "artworkName",
        names |-> << <<"a","r","t","w","o","r","k"," ","n","a","m","e">>, K_artwork_name >>,
        value |-> <<"T","r","i","p">>],
       [field |-> "genre",
        names |-> << <<"s","o","n","g"," ","g","e","n","r","e">>, <<"g","e","n","r","e">> >>,
        value |-> <<"I","n","d","i","e">>],
       [field |-> "artist", names |-> <<K_artist>>, value |-> <<"A","l">>],
       [field |-> "songTitle",
        names |-> << <<"s","o","n","g"," ","t","i","t","l","e">>, <<"t","i","t","l","e">> >>,
        value |-> <<"S","o">>],
       [field |-> "artisticCategory",
        names |-> << <<"a","r","t","i","s","t","i","c"," ","c","a","t","e","g","o","r","y">> >>,
        value |-> <<"O","p">>],
       [field |-> "mood", names |-> <<K_mood>>, value |-> <<"C","a","l","m">>],
       [field |-> "year", names |-> <<K_year>>, value |-> <<"r","e","d">>],
       [field |-> "collections", names |-> <<K_collections>>, value |-> <<"j","a","z","z">>] >>

\* the choices of a header name per column
NameChoices ==
    {c \in [1..Len(Columns) -> 1..2] : \A k \in 1..Len(Columns) : c[k] <= Len(Columns[k].names)}

\* the column orders of the texts: the order of DiggerDB.csv, artwork name
\* and genre swapped, artist first, and the reverse order
ColumnOrders ==
    { <<1, 2, 3, 4, 5, 6, 7, 8, 9>>, <<1, 3, 2, 4, 5, 6, 7, 8, 9>>,
      <<4, 1, 2, 3, 5, 6, 7, 8, 9>>, <<9, 8, 7, 6, 5, 4, 3, 2, 1>> }

\* the two-line text with the chosen header names in the chosen order
headedText(choice, order) ==
    MkText(<< join([i \in 1..Len(order) |-> Columns[order[i]].names[choice[order[i]]]], <<",">>),
              join([i \in 1..Len(order) |-> Columns[order[i]].value], <<",">>) >>)

\* the calls of a loader: a text with one data line
TextCalls ==
    { [kind |-> "text", arg |-> headedText(choice, order), fields |-> <<>>,
       done |-> FALSE, by |-> "", result |-> <<>>] :
        choice \in NameChoices, order \in ColumnOrders }

\* "Pink, green, blue, cool tone"
PinkGreenText ==
    <<"P","i","n","k",","," ","g","r","e","e","n",","," ","b","l","u","e",","," ","c","o","o","l"," ","t","o","n","e">>

\* free texts with colour words: repeated, in capitals, inside longer words,
\* joined by a hyphen, and none at all
ColorTexts ==
    { PinkGreenText,
      <<"P","i","n","k",","," ","p","i","n","k">>,
      <<"R","E","D"," ","r","e","d"," ","R","e","d">>,
      <<"r","e","d","d","e","r"," ","t","o","n","e">>,
      <<"d","a","r","k","-","r","e","d">>,
      <<"i","n","f","r","a","r","e","d">>,
      <<"w","a","r","m"," ","g","o","l","d","."," ","W","a","r","m","!">>,
      <<"t","o","n","e">>,
      <<"2","0","0","1">>,
      <<>> }

\* the calls of the colour extraction
ColorCalls ==
    { [kind |-> "colors", arg |-> t, fields |-> <<>>, done |-> FALSE, by |-> "",
       result |-> <<>>] : t \in ColorTexts }

\* CSVParser.parseCSVLine(line)
Call_parseCSVLine ==
    /\ call.kind = "line" /\ ~call.done
    /\ call' = [call EXCEPT !.done = TRUE, !.by = "CSVParser",
                            !.result = parseCSVLine(call.arg)]
    /\ UNCHANGED <<envVars, reload, typing, sceneManager, threeVars, viteVars, nextVars, crate>>

\* DataProcessor.parseCSVRow(row)
Call_parseCSVRow ==
    /\ call.kind = "line" /\ ~call.done
    /\ call' = [call EXCEPT !.done = TRUE, !.by = "DataProcessor",
                            !.result = parseCSVRow(call.arg)]
    /\ UNCHANGED <<envVars, reload, typing, sceneManager, threeVars, viteVars, nextVars, crate>>

\* DataLoader.loadData() on a new loader, the fetch answering with the text
Call_loadData ==
    /\ call.kind = "text" /\ ~call.done
    /\ call' = [call EXCEPT
                  !.done = TRUE, !.by = "DataLoader",
                  !.result = DataLoader_loadData(NewDataLoader, "ok", call.arg).loader.data]
    /\ UNCHANGED <<envVars, reload, typing, sceneManager, threeVars, viteVars, nextVars, crate>>

\* DataProcessor.parseCSV(text) on a new processor
Call_parseCSV ==
    /\ call.kind = "text" /\ ~call.done
    /\ call' = [call EXCEPT
                  !.done = TRUE, !.by = "DataProcessor",
                  !.result = DataProcessor_parseCSV(NewDataProcessor, call.arg).records]
    /\ UNCHANGED <<envVars, reload, typing, sceneManager, threeVars, viteVars, nextVars, crate>>

\* DataLoader.parseColors(colorInfo)
Call_parseColors ==
    /\ call.kind = "colors" /\ ~call.done
    /\ call' = [call EXCEPT !.done = TRUE, !.by = "DataLoader",
                            !.result = DataLoader_parseColors(call.arg)]
    /\ UNCHANGED <<envVars, reload, typing, sceneManager, threeVars, viteVars, nextVars, crate>>

InitCalls ==
    /\ entry = "none" /\ csv = NoFetch /\ json = NoFetch
    /\ Constructed
    /\ call \in LineCalls \cup TextCalls \cup ColorCalls

NextCalls ==
    \/ Call_parseCSVLine
    \/ Call_parseCSVRow
    \/ Call_loadData
    \/ Call_parseCSV
    \/ Call_parseColors

SpecCalls == InitCalls /\ [][NextCalls]_vars

\* ------------------------------------------------------------------------
\* The Vite app with clicks on the record meshes
\* ------------------------------------------------------------------------

InitSelect ==
    /\ entry = "vite"
    /\ Init

NextSelect ==
    \/ Vite_init
    \/ Vite_searchInput
    \/ Vite_genreChange
    \/ Vite_moodChange
    \/ Vite_colorChange
    \/ Vite_clearFilters
    \/ Vite_click

SpecSelect == InitSelect /\ [][NextSelect]_vars

\* ------------------------------------------------------------------------
\* The 3D mode with a collection larger than the display limits
\* ------------------------------------------------------------------------

\* the data lines of the large source text
ManyRows == 51

\* a source text of ManyRows complete data lines
ManyText ==
    MkText(<<Header>> \o [i \in 1..ManyRows |-> IF i % 2 = 1 THEN Row1 ELSE Row2])

InitDisplay ==
    /\ entry = "three" /\ csv = [status |-> "ok", body |-> ManyText] /\ json = NoFetch
    /\ Constructed
    /\ call = NoCall

NextDisplay ==
    \/ Three_loadData
    \/ Three_searchRecords
    \/ Three_filterByGenre
    \/ Three_filterByMood
    \/ Three_filterByArtist
    \/ Three_clearFilters
    \/ Three_getRandomSelection
    \/ Three_browseByGenre
    \/ Three_adjustPerformanceSettings

SpecDisplay == InitDisplay /\ [][NextDisplay]_vars

\* ------------------------------------------------------------------------
\* The load of the threejs-app in its two steps
\* ------------------------------------------------------------------------

\* DIGGGINApp.loadData and loadDataFallback up to the await of their first
\* fetch: setLoadingState(true)
Loading_start ==
    /\ entry \in {"three", "fallback"}
    /\ digggin.phase = "init" /\ ~digggin.isLoading
    /\ digggin' = setLoadingState(digggin, TRUE)
    /\ UNCHANGED <<envVars, sessionVars, dataProcessor, recordManager, filterManager, viteVars,
                   nextVars, crate>>

\* the fetches are answered and loadData runs on to its return or throw
Loading_finishLoadData ==
    /\ digggin.isLoading
    /\ Three_loadData

\* the fetches are answered and loadDataFallback runs on to its return
Loading_finishLoadDataFallback ==
    /\ digggin.isLoading
    /\ Fallback_loadDataFallback

InitLoading ==
    /\ entry \in {"three", "fallback"}
    /\ Init

NextLoading ==
    \/ Loading_start
    \/ Loading_finishLoadData
    \/ Loading_finishLoadDataFallback

\* a step that ends the load under way: the application leaves its initial
\* phase, whatever becomes of its error and of its loading flag
Loading_ends ==
    /\ digggin.isLoading /\ digggin.phase = "init"
    /\ digggin' \in {[phase |-> p, error |-> e, isLoading |-> l] :
                        p \in {"ready", "failed"},
                        e \in {"", "Failed to load record data", "Failed to load record data."},
                        l \in BOOLEAN}

\* a fetch is answered or rejected in the end, and the browser then runs the
\* rest of the async function: a load under way ends
SpecLoading ==
    /\ InitLoading /\ [][NextLoading]_vars
    /\ WF_digggin(Loading_ends)

\* ------------------------------------------------------------------------
\* The 3D scene under mouse events
\* ------------------------------------------------------------------------

\* the most record meshes positioned in the scene
MaxMeshes == 6

\* RecordManager positions the records it displays
Scene_positionRecords ==
    /\ \E count \in 0..MaxMeshes : sceneManager' = positionRecords(count)
    /\ UNCHANGED <<envVars, reload, typing, call, threeVars, viteVars, nextVars, crate>>

\* SceneManager.onMouseMove: the ray meets the mesh at an index of records,
\* or none (0)
Scene_onMouseMove ==
    /\ \E met \in 0..Len(sceneManager.scale) :
          sceneManager' =
             IF met # 0
             THEN IF sceneManager.hoveredRecord # met
                  THEN setHoveredRecord(sceneManager, met)
                  ELSE sceneManager
             ELSE setHoveredRecord(sceneManager, 0)
    /\ UNCHANGED <<envVars, reload, typing, call, threeVars, viteVars, nextVars, crate>>

\* SceneManager.onMouseClick
Scene_onMouseClick ==
    /\ sceneManager.hoveredRecord # 0
    /\ sceneManager' = setSelectedRecord(sceneManager, sceneManager.hoveredRecord)
    /\ UNCHANGED <<envVars, reload, typing, call, threeVars, viteVars, nextVars, crate>>

\* ControlsManager.clearSelection
Scene_clearSelection ==
    /\ sceneManager' = setSelectedRecord(sceneManager, 0)
    /\ UNCHANGED <<envVars, reload, typing, call, threeVars, viteVars, nextVars, crate>>

InitScene ==
    /\ entry = "three" /\ csv = NoFetch /\ json = NoFetch
    /\ Constructed
    /\ call = NoCall

NextScene ==
    \/ Scene_positionRecords
    \/ Scene_onMouseMove
    \/ Scene_onMouseClick
    \/ Scene_clearSelection

SpecScene == InitScene /\ [][NextScene]_vars

\* ------------------------------------------------------------------------
\* Properties
\* ------------------------------------------------------------------------

\* a is a subsequence of b: the elements of a occur in b in the same order
IsSubseq(a, b) ==
    \E f \in [1..Len(a) -> 1..Len(b)] :
        /\ \A i \in 1..Len(a) : b[f[i]] = a[i]
        /\ \A i, j \in 1..Len(a) : i < j => f[i] < f[j]

NoDuplicates(arr) == \A i, j \in 1..Len(arr) : arr[i] = arr[j] => i = j

NoEmptyToken(arr) == \A i \in 1..Len(arr) : arr[i] # <<>>

\* the queries a caller can pass: every combination of the entered values
AllQueries ==
    { activeFilters([search |-> s, genre |-> g, mood |-> m, artist |-> a, color |-> c,
                     category |-> t, collection |-> k]) :
        s \in SearchTexts, g \in GenreValues, m \in MoodValues, a \in ArtistValues,
        c \in ColorValues, t \in CategoryValues, k \in CollectionValues }

\* the queries over the dimensions dims that set none of the dimensions of q
DisjointQueries(q, dims) == {q2 \in AllQueries : DOMAIN q2 \subseteq dims \ DOMAIN q}

\* C1: every record of a normalized collection has a non-empty cover and a
\* non-empty artist (rows lacking either are excluded), in every loader.
C1_RequiredFields ==
    /\ \A r \in Range(dataProcessor.records) : r.cover # <<>> /\ r.artist # <<>>
    /\ \A r \in Range(dataLoader.data) : r.cover # <<>> /\ r.artist # <<>>
    /\ \A r \in Range(home.allArtworks) : r.cover # <<>> /\ r.artist # <<>>

\* C2: an ordinary filter, search or clear operation shows the matching
\* records in their original relative order; every filtered list is a
\* subsequence of the collection it was filtered from.
C2_StableFilter ==
    [][ /\ recordManager'.currentFilters # recordManager.currentFilters =>
              IsSubseq(recordManager'.displayedRecords, dataProcessor'.records)
        /\ IsSubseq(filterManager'.filteredRecords, filterManager'.allRecords)
        /\ IsSubseq(cratediggerApp'.filteredData, cratediggerApp'.allData)
        /\ IsSubseq(home'.filteredArtworks, home'.allArtworks) ]_vars

\* C3: filter conjunction.  With Q1 the query in force and Q2 any query on
\* other dimensions, filtering by Q1 and then by Q2 gives the list that
\* filtering once by both gives, and so does Q2 and then Q1 -- in
\* filterArtworks, CratediggerApp.applyFilters, SimpleFilterManager.applyFilters
\* and DataProcessor.filterRecords.  (CratediggerApp searches its loader's
\* data, which is always the list the application holds as allData, so an
\* application filtering a result holds that result in both places.)
C3_FilterConjunction ==
    /\ LET all == home.allArtworks
           q1  == activeFilters(filterBar.filters)
       IN  \A q2 \in DisjointQueries(q1, {"search", "genre", "mood", "category", "collection"}) :
              /\ filterArtworks(home.filteredArtworks, q2) = filterArtworks(all, q1 @@ q2)
              /\ filterArtworks(filterArtworks(all, q2), q1) = filterArtworks(all, q1 @@ q2)
    /\ LET all == cratediggerApp.allData
           q1  == activeFilters(filterPanel.filters)
           f1  == appFiltered(all, dataLoader.data, q1)
       IN  \A q2 \in DisjointQueries(q1, {"search", "genre", "mood", "color"}) :
              LET f2 == appFiltered(all, dataLoader.data, q2) IN
              /\ appFiltered(f1, f1, q2) = appFiltered(all, dataLoader.data, q1 @@ q2)
              /\ appFiltered(f2, f2, q1) = appFiltered(all, dataLoader.data, q1 @@ q2)
    /\ LET all == filterManager.allRecords
           q1  == filterManager.currentFilters
       IN  \A q2 \in DisjointQueries(q1, {"search", "genre", "mood"}) :
              /\ simpleFilter(simpleFilter(all, q1), q2) = simpleFilter(all, q1 @@ q2)
              /\ simpleFilter(simpleFilter(all, q2), q1) = simpleFilter(all, q1 @@ q2)
    /\ LET all == dataProcessor.records
           q1  == recordManager.currentFilters
       IN  \A q2 \in DisjointQueries(q1, {"search", "genre", "mood", "artist", "collection"}) :
              /\ filterRecords(filterRecords(all, q1), q2) = filterRecords(all, q1 @@ q2)
              /\ filterRecords(filterRecords(all, q2), q1) = filterRecords(all, q1 @@ q2)

\* C3 witness: the gallery page shows a list narrowed by the query in force,
\* and a query on other dimensions narrows both that list and the whole
\* collection further.
C3_Witness ==
    /\ entry = "next" /\ ~home.isLoading
    /\ activeFilters(filterBar.filters) # NoFilters
    /\ home.filteredArtworks # home.allArtworks
    /\ home.filteredArtworks # <<>>
    /\ \E q2 \in DisjointQueries(activeFilters(filterBar.filters),
                                 {"search", "genre", "mood", "category", "collection"}) :
          /\ filterArtworks(home.allArtworks, q2) # home.allArtworks
          /\ filterArtworks(home.allArtworks, q2) # <<>>
          /\ filterArtworks(home.filteredArtworks, q2) # home.filteredArtworks

\* the search text of a filter set is empty or whitespace only
BlankSearch(filters) == "search" \in DOMAIN filters /\ trim(filters["search"]) = <<>>

\* C4: an empty or whitespace-only search text is no search predicate: the
\* list it yields is the list the same query yields with the search removed.
C4_BlankSearchIsNoSearch ==
    /\ LET f == filterPanel.filters IN
       ( /\ cratediggerApp.phase = "ready" /\ BlankSearch(f)
         /\ cratediggerApp.filteredData =
               appFiltered(cratediggerApp.allData, dataLoader.data, f) )
       => cratediggerApp.filteredData =
             appFiltered(cratediggerApp.allData, dataLoader.data, [f EXCEPT !["search"] = <<>>])
    /\ LET f == recordManager.currentFilters IN
       BlankSearch(f) =>
          filterRecords(dataProcessor.records, f) =
             filterRecords(dataProcessor.records, DelKey(f, "search"))
    /\ LET f == filterManager.currentFilters IN
       ( BlankSearch(f) /\
         filterManager.filteredRecords = simpleFilter(filterManager.allRecords, f) )
       => filterManager.filteredRecords =
             simpleFilter(filterManager.allRecords, DelKey(f, "search"))

\* the search blob of the specification: the lowercase, space-joined text of
\* all display and tag fields
searchBlob(fields, colors, tags) == toLowerCase(join(fields \o colors \o tags, <<" ">>))

\* the positions of records whose blob contains the lowercased search text
blobHits(records, blob(_), text) ==
    {i \in 1..Len(records) : includes(blob(records[i]), toLowerCase(text))}

\* only the search dimension of a filter set is in force
OnlySearch(filters) ==
    /\ Truthy(filters, "search")
    /\ \A k \in DOMAIN filters \ {"search"} : ~Truthy(filters, k)

\* C5: a non-empty search yields exactly the records whose searchBlob
\* (artwork name, artist, song title, genre, artistic category, mood, colors,
\* collections or tags) contains the lowercased search text.
C5_SearchMatchesBlob ==
    /\ LET f == filterPanel.filters
           blob(r) == searchBlob(<<r.artworkName, r.artist, r.songTitle, r.songGenre,
                                   r.artisticCategory, r.mood>>, r.colors, r.tags)
       IN  ( /\ cratediggerApp.phase = "ready" /\ OnlySearch(f) /\ ~BlankSearch(f)
             /\ cratediggerApp.filteredData =
                   appFiltered(cratediggerApp.allData, dataLoader.data, f) )
           => cratediggerApp.filteredData =
                 keepIdx(cratediggerApp.allData,
                         blobHits(cratediggerApp.allData, blob, f["search"]), 1)
    /\ LET f == filterManager.currentFilters
           blob(r) == searchBlob(<<r.artworkName, r.artist, r.songTitle, r.genre,
                                   r.artisticCategory, r.mood>>, r.colors, r.collections)
       IN  ( /\ OnlySearch(f) /\ ~BlankSearch(f)
             /\ filterManager.filteredRecords = simpleFilter(filterManager.allRecords, f) )
           => filterManager.filteredRecords =
                 keepIdx(filterManager.allRecords,
                         blobHits(filterManager.allRecords, blob, f["search"]), 1)

\* the records of a list whose field holds the filter value as a
\* case-folded substring
foldedHits(records, field(_), value) ==
    {r \in Range(records) : includes(toLowerCase(field(r)), toLowerCase(value))}

\* the records of a list one of whose tokens holds the filter value as a
\* case-folded substring
foldedTokenHits(records, tokens(_), value) ==
    {r \in Range(records) :
        \E i \in 1..Len(tokens(r)) : includes(toLowerCase(tokens(r)[i]), toLowerCase(value))}

\* exactly dimension k of a filter set is in force
Only(filters, k) ==
    /\ Truthy(filters, k)
    /\ \A x \in DOMAIN filters \ {k} : ~Truthy(filters, x)

\* C6: a genre, mood or color predicate keeps a record exactly when the
\* field contains the filter value as a case-folded substring.
C6_SubstringMatch ==
    /\ LET f == recordManager.currentFilters
           genreOf(r) == r.genre
       IN  ( Only(f, "genre") /\
             Range(recordManager.displayedRecords) =
                Range(filterRecords(dataProcessor.records, f)) )
           => Range(recordManager.displayedRecords) =
                 foldedHits(dataProcessor.records, genreOf, f["genre"])
    /\ LET f == filterManager.currentFilters
           genreOf(r) == r.genre
       IN  ( Only(f, "genre") /\
             filterManager.filteredRecords = simpleFilter(filterManager.allRecords, f) )
           => Range(filterManager.filteredRecords) =
                 foldedHits(filterManager.allRecords, genreOf, f["genre"])
    /\ LET f == filterPanel.filters
           colorsOf(r) == r.colors
       IN  ( /\ cratediggerApp.phase = "ready" /\ Only(f, "color")
             /\ cratediggerApp.filteredData =
                   appFiltered(cratediggerApp.allData, dataLoader.data, f) )
           => Range(cratediggerApp.filteredData) =
                 foldedTokenHits(cratediggerApp.allData, colorsOf, f["color"])
    /\ LET f == activeFilters(filterBar.filters)
           genreOf(r) == r.songGenre
       IN  ( Only(f, "genre") /\ ~home.isLoading )
           => Range(home.filteredArtworks) = foldedHits(home.allArtworks, genreOf, f["genre"])

\* C7: the colors, collections and tags of every record hold no duplicate
\* and no empty token.
C7_TokenLists ==
    /\ \A r \in Range(dataProcessor.records) :
          /\ NoDuplicates(r.colors) /\ NoEmptyToken(r.colors)
          /\ NoDuplicates(r.collections) /\ NoEmptyToken(r.collections)
    /\ \A r \in Range(dataLoader.data) :
          /\ NoDuplicates(r.colors) /\ NoEmptyToken(r.colors)
          /\ NoDuplicates(r.collections) /\ NoEmptyToken(r.collections)
          /\ NoDuplicates(r.tags) /\ NoEmptyToken(r.tags)

\* the lines of a fetched text
linesOf(text) == split(trim(text), "\n")

\* the data line numbers whose field count equals the header's
matchingLines(text, fieldsOf(_)) ==
    {i \in 1..(Len(linesOf(text)) - 1) :
        Len(fieldsOf(linesOf(text)[i + 1])) = Len(fieldsOf(linesOf(text)[1]))}

\* C8: ingestion keeps exactly the data lines whose field count equals the
\* header's, in their original order; lines with more or fewer fields are
\* dropped.
C8_FieldCountMismatchDropped ==
    /\ (entry = "three" /\ digggin.phase = "ready") =>
          LET kept == matchingLines(csv.body, parseCSVRow) IN
          /\ {r.id : r \in Range(dataProcessor.records)} = kept
          /\ Len(dataProcessor.records) = Cardinality(kept)
          /\ \A i, j \in 1..Len(dataProcessor.records) :
                i < j => dataProcessor.records[i].id < dataProcessor.records[j].id
    /\ (entry = "crate" /\ crate.phase = "started" /\ ~crate.usedFallback) =>
          Len(crate.records) = Cardinality(matchingLines(csv.body, parseCSVLine))

\* C9: a fetched text with fewer than two lines makes the load fail with a
\* malformed-input error, and no collection is produced from it.
C9_TooFewLinesFails ==
    (csv.status = "ok" /\ Len(linesOf(csv.body)) < 2) =>
       /\ (entry = "three" /\ digggin.phase # "init") => digggin.phase = "failed"
       /\ (entry = "vite" /\ cratediggerApp.phase # "init") =>
             cratediggerApp.phase = "failed" /\ ~dataLoader.isLoaded
       /\ (entry = "crate" /\ crate.phase # "init") =>
             crate.error = "CSV must have at least a header and one data row"

\* C10: a fetch that fails (network error or a non-OK status) makes the load
\* fail with a source-unavailable error that is not the malformed-input
\* error, and the body of the failed fetch is never parsed into records.
C10_FetchFailureFails ==
    (csv.status # "ok") =>
       /\ (entry = "vite" /\ cratediggerApp.phase # "init") =>
             /\ cratediggerApp.phase = "failed"
             /\ ~dataLoader.isLoaded /\ dataLoader.data = <<>>
       /\ (entry = "crate" /\ crate.phase # "init") =>
             /\ crate.usedFallback
             /\ crate.error \in {"fetch rejected", "Failed to load CSV"}

\* the strings of the round-trip scenario
S_Trip == <<"T","r","i","p">>

S_jazz == <<"j","a","z","z">>

S_classic == <<"c","l","a","s","s","i","c">>

\* C11: loading the three-line CSV of the round-trip scenario produces exactly
\* one record, named "Trip", with no colors and the collections jazz and
\* classic.
C11_RoundTrip ==
    (csv.status = "ok" /\ csv.body = ScenarioText) =>
       /\ (entry = "three" /\ digggin.phase = "ready") =>
             /\ Len(dataProcessor.records) = 1
             /\ dataProcessor.records[1].artworkName = S_Trip
             /\ dataProcessor.records[1].colors = <<>>
             /\ Range(dataProcessor.records[1].collections) = {S_jazz, S_classic}
       /\ (entry = "vite" /\ cratediggerApp.phase = "ready") =>
             /\ Len(dataLoader.data) = 1
             /\ dataLoader.data[1].artworkName = S_Trip
             /\ dataLoader.data[1].colors = <<>>
             /\ Range(dataLoader.data[1].collections) = {S_jazz, S_classic}
       /\ (entry = "crate" /\ crate.phase = "started") =>
             /\ ~crate.usedFallback
             /\ Len(crate.records) = 1
             /\ crate.records[1][H_artwork_name].str = S_Trip

\* a list of filter options for the observed values V: every non-empty value
\* of V once, no empty string, ascending
IsOptionList(list, V) ==
    /\ Range(list) = V \ {<<>>}
    /\ NoDuplicates(list)
    /\ \A i, j \in 1..Len(list) : i < j => lessThan(list[i], list[j])

\* the single tokens of the multi-value fields of a list of records
tokensOf(records, tokens(_)) == UNION {Range(tokens(r)) : r \in Range(records)}

\* C12: the filter options of every dimension list each distinct non-empty
\* value of the loaded records once (multi-value fields as single tokens),
\* without the empty string, in ascending order.
C12_FilterOptions ==
    /\ (entry = "three" /\ digggin.phase = "ready") =>
          LET recs == dataProcessor.records
              o    == recordManager.filterOptions
              collectionsOf(r) == r.collections
          IN  /\ IsOptionList(o.genres, {r.genre : r \in Range(recs)})
              /\ IsOptionList(o.artists, {r.artist : r \in Range(recs)})
              /\ IsOptionList(o.moods, {r.mood : r \in Range(recs)})
              /\ IsOptionList(o.collections, tokensOf(recs, collectionsOf))
    /\ (entry = "vite" /\ cratediggerApp.phase = "ready") =>
          LET recs == dataLoader.data
              o    == filterPanel.options
              colorsOf(r) == r.colors
              tagsOf(r) == r.tags
          IN  /\ IsOptionList(o.genres, {r.songGenre : r \in Range(recs)})
              /\ IsOptionList(o.moods, {r.mood : r \in Range(recs)})
              /\ IsOptionList(o.artists, {r.artist : r \in Range(recs)})
              /\ IsOptionList(o.colors, tokensOf(recs, colorsOf))
              /\ IsOptionList(o.tags, tokensOf(recs, tagsOf))
    /\ (entry = "next" /\ ~home.isLoading /\ home.error = "") =>
          LET recs == home.allArtworks
              collectionsOf(r) == mapTrim(split(r.collections, ","))
          IN  /\ IsOptionList(home.genres, {r.songGenre : r \in Range(recs)})
              /\ IsOptionList(home.moods, {r.mood : r \in Range(recs)})
              /\ IsOptionList(home.categories, {r.artisticCategory : r \in Range(recs)})
              /\ IsOptionList(home.collections, tokensOf(recs, collectionsOf))

\* the queries CratediggerApp.applyFilters can be given
ViteQueries == {q \in AllQueries : DOMAIN q \subseteq {"search", "genre", "mood", "color"}}

\* DataLoader.filterByGenre or filterByMood throws a TypeError
filterByThrows(data) ==
    \E i \in 1..Len(data) : data[i].songGenre = Undefined \/ data[i].mood = Undefined

\* C13: query-time operations are total.  On every collection normalization
\* produces, and for every query, DataLoader.search, DataLoader.filterByGenre /
\* filterByMood / filterByColor and CratediggerApp.applyFilters dereference no
\* undefined field, so they return their list (the empty list when nothing
\* matches) and never throw.  DataProcessor.filterRecords and filterArtworks
\* guard every field they read and cannot throw on any record.
C13_QueriesTotal ==
    /\ ~filterByThrows(dataLoader.data)
    /\ \A q \in ViteQueries :
          /\ ~appThrows(cratediggerApp.allData, dataLoader.data, q)
          /\ Truthy(q, "search") =>
                IsSubseq(DataLoader_search(dataLoader.data, q["search"]), dataLoader.data)

\* C13 witness: a collection normalized from a data line that lacks the mood,
\* year and collections columns is held, and a genre filter has returned the
\* record of that line.
C13_Witness ==
    /\ entry = "vite" /\ cratediggerApp.phase = "ready"
    /\ Truthy(filterPanel.filters, "genre")
    /\ \E r \in Range(cratediggerApp.filteredData) :
          r.mood = S_neutral /\ r.year = S_Unknown /\ r.tags = <<>>

\* a text that is present: neither undefined nor empty
Present(value) == value # Undefined /\ value # <<>>

\* C14: in every normalized record the optional text fields (artwork name,
\* genre, mood, year) are never null and never empty -- an absent one holds
\* its placeholder -- and the multi-value fields are lists.
C14_Placeholders ==
    /\ \A r \in Range(dataProcessor.records) :
          /\ Present(r.artworkName) /\ Present(r.genre) /\ Present(r.mood)
          /\ NoEmptyToken(r.colors) /\ NoEmptyToken(r.collections)
    /\ \A r \in Range(dataLoader.data) :
          /\ Present(r.artworkName) /\ Present(r.songGenre)
          /\ Present(r.mood) /\ Present(r.year)

\* C15: after any sequence of loads the ids of the held records are pairwise
\* distinct.
C15_DistinctIds ==
    /\ \A i, j \in DOMAIN dataProcessor.records :
          i # j => dataProcessor.records[i].id # dataProcessor.records[j].id
    /\ \A i, j \in DOMAIN dataLoader.data :
          i # j => dataLoader.data[i].id # dataLoader.data[j].id

\* C16: once a load has completed, the held records and the filter options
\* are those of the most recently completed load alone.
C16_ReloadRebuilds ==
    reload.held > 0 =>
       /\ entry = "three" =>
             LET fresh == DataProcessor_parseCSV(NewDataProcessor, reload.last) IN
             /\ dataProcessor.records = fresh.records
             /\ recordManager.currentRecords = fresh.records
             /\ recordManager.filterOptions = DataProcessor_getFilterOptions(fresh)
       /\ entry = "vite" =>
             dataLoader.data = DataLoader_loadData(NewDataLoader, "ok", reload.last).loader.data

\* C17: the held results never come from a load that started before another
\* load that has already completed.
C17_StaleLoadGuard ==
    \A b \in reload.completed : reload.held >= b

\* the search text the filters in force hold
searchInForce ==
    IF entry = "three"
    THEN IF "search" \in DOMAIN recordManager.currentFilters
         THEN recordManager.currentFilters["search"] ELSE Undefined
    ELSE IF entry = "fallback"
    THEN IF "search" \in DOMAIN filterManager.currentFilters
         THEN filterManager.currentFilters["search"] ELSE Undefined
    ELSE filterPanel.filters.search

\* C18: a burst of input events on the search input causes at most one filter
\* run, and once the input has been quiet for the delay exactly one, with the
\* latest text.
C18_Debounce ==
    typing.keys > 0 =>
       /\ typing.runs <= 1
       /\ typing.quiet => typing.runs = 1 /\ searchInForce = typing.value

\* C19: a line splitter returns the field values an RFC 4180 line encodes: a
\* comma inside a quoted field does not split it, the enclosing quotes are
\* dropped, and a doubled quote yields one quote character.
C19_Rfc4180Quoting ==
    (call.kind = "line" /\ call.done) => call.result = call.fields

\* the value of the named column of the one data line
valueOf(field) ==
    LET k == CHOOSE j \in 1..Len(Columns) : Columns[j].field = field IN Columns[k].value

\* C20: whichever accepted header names the text uses and whichever order its
\* columns have, the one record holds each column's value under the column's
\* canonical field.
C20_HeaderCanonicalization ==
    (call.kind = "text" /\ call.done) =>
       /\ Len(call.result) = 1
       /\ LET r == call.result[1] IN
          /\ r.cover = valueOf("cover")
          /\ r.artworkName = valueOf("artworkName")
          /\ r.artist = valueOf("artist")
          /\ r.songTitle = valueOf("songTitle")
          /\ r.artisticCategory = valueOf("artisticCategory")
          /\ r.mood = valueOf("mood")
          /\ IF call.by = "DataLoader"
             THEN r.songGenre = valueOf("genre") /\ r.year = valueOf("year")
             ELSE r.genre = valueOf("genre")

\* the word occurs in the text as a whole word, whatever its case
occursAsWord(word, text) ==
    \E a \in 1..Len(text) :
       LET b == a + Len(word) - 1 IN
       /\ b <= Len(text)
       /\ toLowerCase(SubSeq(text, a, b)) = word
       /\ a = 1 \/ ~IsWordChar(text[a - 1])
       /\ b = Len(text) \/ ~IsWordChar(text[b + 1])

\* C21: the colours extracted from a free text are exactly the vocabulary
\* words that occur in it as whole words in any case, lowercased and listed
\* once each; the scenario text yields pink, green, blue and cool.
C21_ColorExtraction ==
    (call.kind = "colors" /\ call.done) =>
       /\ NoDuplicates(call.result)
       /\ Range(call.result) = {w \in ColorVocabulary : occursAsWord(w, call.arg)}
       /\ call.arg = PinkGreenText =>
             Range(call.result) = { <<"p","i","n","k">>, <<"g","r","e","e","n">>,
                                    <<"b","l","u","e">>, <<"c","o","o","l">> }

C21_Witness ==
    /\ call.kind = "colors" /\ call.done
    /\ call.arg = <<"R","E","D"," ","r","e","d"," ","R","e","d">>
    /\ call.result = << <<"r","e","d">> >>

\* C22: a collection taken from the JSON document holds no entry without a
\* cover or without an artist.
C22_JsonRequiredFields ==
    /\ (entry = "fallback" /\ json.status = "ok") =>
          \A r \in Range(filterManager.allRecords) : Present(r.cover) /\ Present(r.artist)
    /\ entry = "next" =>
          \A a \in Range(home.allArtworks) : Present(a.cover) /\ Present(a.artist)

\* C24: once the fallback load has ended, the records are those of the JSON
\* document when it was delivered, the CSV source staying unused, and
\* otherwise those of the CSV file.
C24_JsonFirstCsvFallback ==
    (entry = "fallback" /\ digggin.phase # "init") =>
       IF json.status = "ok"
       THEN filterManager.allRecords = json.body /\ dataProcessor = NewDataProcessor
       ELSE csv.status = "ok" =>
               /\ digggin.phase = "ready"
               /\ filterManager.allRecords =
                     DataProcessor_parseCSV(NewDataProcessor, csv.body).records

\* the data line numbers of the text that have no problem under the parser
\* named: as many fields as the header, and a cover and an artist
wellFormedLines(text, parser) ==
    LET lines  == linesOf(text)
        fields == [i \in 1..Len(lines) |->
                     IF parser = "CSVParser" THEN parseCSVLine(lines[i])
                     ELSE parseCSVRow(lines[i])]
    IN  {i \in 1..(Len(lines) - 1) :
            /\ Len(fields[i + 1]) = Len(fields[1])
            /\ Len(fields[i + 1]) >= 4
            /\ fields[i + 1][1] # <<>> /\ fields[i + 1][4] # <<>>}

\* C23: a load of a text with data lines ends with a collection that holds
\* exactly the lines without a problem, in their order: lines with a problem
\* are dropped and abort nothing.
C23_RowProblemsDropRows ==
    /\ (entry = "three" /\ csv.status = "ok" /\ digggin.phase # "init") =>
          /\ digggin.phase = "ready"
          /\ {r.id : r \in Range(dataProcessor.records)}
                = wellFormedLines(csv.body, "DataProcessor")
          /\ \A i, j \in 1..Len(dataProcessor.records) :
                i < j => dataProcessor.records[i].id < dataProcessor.records[j].id
    /\ (entry = "crate" /\ csv.status = "ok" /\ crate.phase = "started"
          /\ Len(linesOf(csv.body)) >= 2) =>
          /\ ~crate.usedFallback
          /\ Len(crate.records) = Cardinality(wellFormedLines(csv.body, "CSVParser"))

\* the CSV load of the crate-digger entry point fails: the fetch is rejected,
\* the response is not OK, or the text has fewer than two lines
csvLoadFails ==
    csv.status # "ok" \/ Len(linesOf(csv.body)) < 2

C26_FilteredIsFilterOfAll ==
    entry = "fallback" =>
       filterManager.filteredRecords =
          simpleFilter(filterManager.allRecords, filterManager.currentFilters)

\* C27: the selected record of the visualizer is null or one of the record
\* meshes in its list of records.
C27_SelectionAmongRecords ==
    entry = "vite" =>
       \/ visualizer.selectedRecord.kind = "null"
       \/ /\ visualizer.selectedRecord.kind = "shown"
          /\ visualizer.selectedRecord.index \in 1..Len(visualizer.records)

\* C28: the selected record of the scene has the scale of the selected
\* highlight, whatever mouse moves follow its selection.
C28_SelectedKeepsHighlight ==
    sceneManager.selectedRecord # 0 =>
       sceneManager.scale[sceneManager.selectedRecord] = selectedScale

C30_LoadingFlagCleared ==
    /\ [](digggin.isLoading => digggin.phase = "init")
    /\ [](~recordManager.isLoading)
    /\ (digggin.isLoading ~> (digggin.phase # "init" /\ ~digggin.isLoading))

\* a load that was started has failed and the flag is cleared
C30_Witness ==
    /\ entry = "three" /\ csv.status = "neterr"
    /\ digggin.phase = "failed" /\ ~digggin.isLoading

====
